---- MODULE Spec2Model ----
(***************************************************************************)
(* Model of the Edge login tree engine (src/core/login/login.ts and its    *)
(* helpers).  JavaScript objects live in `heap`, a sequence of records     *)
(* indexed by object id, so that reads, allocations and in-place writes of *)
(* the code are distinguishable.  Arrays are never written in place by the *)
(* code, so they are plain sequences.  Scalars, byte strings and base64    *)
(* texts are strings; an EdgeBox is a record [key, data].                  *)
(***************************************************************************)
EXTENDS Integers, Sequences, FiniteSets, TLC

VARIABLES
  heap,       \* memory: object id -> object (a function from field names)
  stashTree,  \* id of the root LoginStash the caller holds
  loginStash, \* id of the LoginStash node that is being logged into
  loginTree,  \* id of the LoginTree node whose credentials are used
  loginKey,   \* the key handed to applyLoginReply / makeLoginTree
  reply,      \* the LoginReply (a value tree: children are nested records)
  error,      \* the error the auth server answered with
  opts,       \* the EdgeAccountOptions of the call
  deviceDescription, \* ai.props.state.login.deviceDescription
  appId,      \* the appId argument of makeLoginTree / sanitizeLoginStash
  pc,         \* position of the calling code
  ret,        \* outcome of the last call: [err, out]
  ret0,       \* outcome of the call before the last one
  disk,       \* the text files of the disklet: path -> content
  pending,    \* disklet writes that were started and have not finished
  log,        \* calls to the collaborators, in order
  calls       \* the asynchronous calls in flight, one record per call

args == <<stashTree, loginStash, loginTree, loginKey, reply, error, opts,
         deviceDescription>>
io == <<disk, pending, log, calls>>
vars == <<heap, args, appId, pc, ret, ret0, io>>

-----------------------------------------------------------------------------
(* Bounds of the enumerated inputs. *)

MaxKids == 2

-----------------------------------------------------------------------------
(* JavaScript values. *)

Undef == "undefined"
NoError == "none"

\* Fields whose values are objects (boxes, snrps, arrays): in this model they
\* are either absent or set, never present with the value undefined.
ObjectFields ==
  { "loginAuthBox", "parentBox", "passwordAuthBox", "passwordAuthSnrp",
    "passwordBox", "passwordKeySnrp", "pin2TextBox", "mnemonicBox",
    "rootKeyBox", "syncKeyBox", "pin2Box", "pin2KeyBox", "question2Box",
    "recovery2Box", "recovery2KeyBox", "children", "keyBoxes", "keyInfos" }

\* `o.f != null`
NonNull(o, f) == f \in DOMAIN o /\ (f \in ObjectFields \/ o[f] # Undef)

\* `o.f` for a scalar field: a missing property reads as undefined
Get(o, f) == IF f \in DOMAIN o THEN o[f] ELSE Undef

\* `{ ...o, [f]: v }`
With(o, f, v) == (f :> v) @@ o

elvis(x, fallback) == IF x # Undef THEN x ELSE fallback

\* (mutant) spreads every field of the source
filterObjectSpread(source, keys) == source

filterObject(source, keys) == [k \in (keys \cap DOMAIN source) |-> source[k]]

softCat(a, b) == a \o b

-----------------------------------------------------------------------------
(* The heap. *)

Result(h, out) == [heap |-> h, err |-> NoError, out |-> out]
Throw(h, name) == [heap |-> h, err |-> name, out |-> 0]

NewId(h) == Len(h) + 1
Alloc(h, obj) == Append(h, obj)
SetField(h, id, f, v) == [h EXCEPT ![id] = With(@, f, v)]

ChildrenOf(h, id) == IF NonNull(h[id], "children") THEN h[id].children ELSE <<>>

\* The value of the tree rooted at object `id`: children ids replaced by trees.
RECURSIVE Tree(_, _)
Tree(h, id) ==
  IF "children" \in DOMAIN h[id]
  THEN With(h[id], "children",
            [i \in 1..Len(h[id].children) |-> Tree(h, h[id].children[i])])
  ELSE h[id]

\* The ids of the objects of the tree rooted at `id`.
RECURSIVE TreeIds(_, _)
TreeIds(h, id) ==
  {id} \cup UNION { TreeIds(h, ChildrenOf(h, id)[i]) : i \in 1..Len(ChildrenOf(h, id)) }

\* JSON.parse of a tree into fresh objects.
RECURSIVE Load(_, _), LoadAll(_, _, _, _)
Load(h, tree) ==
  IF "children" \in DOMAIN tree
  THEN LET r == LoadAll(Alloc(h, tree), tree.children, 1, <<>>)
       IN Result(SetField(r.heap, NewId(h), "children", r.out), NewId(h))
  ELSE Result(Alloc(h, tree), NewId(h))
LoadAll(h, trees, i, acc) ==
  IF i > Len(trees) THEN Result(h, acc)
  ELSE LET r == Load(h, trees[i])
       IN LoadAll(r.heap, trees, i + 1, Append(acc, r.out))

-----------------------------------------------------------------------------
(* Cryptography and encodings. *)

Box(key, data) == [key |-> key, data |-> data]
CanDecrypt(box, key) == box.key = key
decrypt(box, key) == box.data

Base64Stringify(bytes) == "b64:" \o bytes

\* The byte strings that occur as plaintexts of the enumerated boxes.
Plaintexts == {"pin2", "rec2", "auth", "pwauth"}
CanBase64Parse(text) == \E b \in Plaintexts : Base64Stringify(b) = text
Base64Parse(text) == CHOOSE b \in Plaintexts : Base64Stringify(b) = text

hmacSha256(data) == "hmac:" \o data

\* keys.js is outside the sources at hand: key infos are their wallet ids,
\* merging keeps the first occurrence of each id.
RECURSIVE mergeKeyInfos(_)
mergeKeyInfos(infos) ==
  IF infos = <<>> THEN <<>>
  ELSE LET front == mergeKeyInfos(SubSeq(infos, 1, Len(infos) - 1))
           last == infos[Len(infos)]
       IN IF \E i \in 1..Len(front) : front[i] = last THEN front
          ELSE Append(front, last)

Now == "now"

-----------------------------------------------------------------------------
(* login.ts: the tree engine. *)

\* (mutant) `node.children = children; return node`
cloneNodeInPlace(h, node, children) ==
  Result(SetField(h, node, "children", children), node)

\* cloneNode: `{ ...node, children }`, a new object
cloneNode(h, node, children) ==
  Result(Alloc(h, With(h[node], "children", children)), NewId(h))

\* (mutant) keeps every field of the node, like cloneNode
cloneOuterSpread(h, node, children) ==
  Result(Alloc(h, With(h[node], "children", children)), NewId(h))

\* (mutant) concatenates the old children and the new ones, as applyKit does
cloneOuterCat(h, node, children) ==
  Result(Alloc(h, With(filterObject(h[node], {"username", "appId", "loginId"}),
                       "children",
                       softCat(IF NonNull(h[node], "children") THEN h[node].children
                               ELSE <<>>, children))),
         NewId(h))

\* (mutant) forgets the loginId
cloneOuterNoLoginId(h, node, children) ==
  Result(Alloc(h, With(filterObject(h[node], {"username", "appId"}),
                       "children", children)),
         NewId(h))

\* The outer clone of makeLoginTree and sanitizeLoginStash.
OuterFields == {"username", "appId", "loginId"}
cloneOuter(h, node, children) ==
  Result(Alloc(h, With(filterObject(h[node], OuterFields), "children", children)),
         NewId(h))

\* searchTree with the predicate `node[field] === value`
RECURSIVE searchTree(_, _, _, _), searchChildren(_, _, _, _, _)
searchTree(h, node, field, value) ==
  IF Get(h[node], field) = value THEN node
  ELSE searchChildren(h, ChildrenOf(h, node), field, value, 1)
searchChildren(h, children, field, value, i) ==
  IF i > Len(children) THEN 0
  ELSE LET out == searchTree(h, children[i], field, value)
       IN IF out # 0 THEN out
          ELSE searchChildren(h, children, field, value, i + 1)

-----------------------------------------------------------------------------
(* login.ts: the reply reconciler. *)

ReplyAllowlist ==
  { "appId", "created", "loginId", "loginAuthBox", "userId", "otpKey",
    "otpResetDate", "otpTimeout", "parentBox", "passwordAuthBox",
    "passwordAuthSnrp", "passwordBox", "passwordKeySnrp", "pin2TextBox",
    "mnemonicBox", "rootKeyBox", "syncKeyBox" }

\* "Preserve client-only data": writes to `out`, reads `stash`
preserveField(h, out, stash, f) ==
  IF NonNull(h[stash], f) THEN SetField(h, out, f, h[stash][f]) ELSE h
\* (mutant) treats loginId as client-only data too
preserveClientDataAndId(h, out, stash) ==
  preserveField(preserveField(preserveField(preserveField(h, out, stash, "lastLogin"),
                                            out, stash, "username"),
                              out, stash, "userId"),
                out, stash, "loginId")
\* (mutant) the voucher of the stash is client-only data too
preserveClientDataAndVoucher(h, out, stash) ==
  preserveField(
    preserveField(
      preserveField(preserveField(preserveField(h, out, stash, "lastLogin"),
                                  out, stash, "username"),
                    out, stash, "userId"),
      out, stash, "voucherId"),
    out, stash, "voucherAuth")
\* (mutant) the reply's userId wins over the stash's
preserveClientDataReplyFirst(h, out, stash) ==
  LET h2 == preserveField(preserveField(h, out, stash, "lastLogin"),
                          out, stash, "username")
  IN IF NonNull(h2[out], "userId") THEN h2
     ELSE preserveField(h2, out, stash, "userId")
preserveClientData(h, out, stash) ==
  preserveField(preserveField(preserveField(h, out, stash, "lastLogin"),
                              out, stash, "username"),
                out, stash, "userId")

\* (mutant) the comparison reversed
lostChildrenReversed(stashChildren, replyChildren) ==
  Len(stashChildren) < Len(replyChildren)

\* `stashChildren.length > replyChildren.length`
lostChildren(stashChildren, replyChildren) ==
  Len(stashChildren) > Len(replyChildren)

\* `!child.parentBox`
noParentBox(child) == ~NonNull(child, "parentBox")

\* (mutant) stores the decrypted bytes without encoding them
storeKeyPlain(h, out, loginReply, key, boxField, keyField) ==
  IF ~NonNull(loginReply, boxField) THEN Result(h, out)
  ELSE IF ~CanDecrypt(loginReply[boxField], key) THEN Throw(h, "DecryptError")
  ELSE Result(SetField(h, out, keyField, decrypt(loginReply[boxField], key)), out)

\* "Store the pin key unencrypted" / "Store the recovery key unencrypted"
storeKey(h, out, loginReply, key, boxField, keyField) ==
  IF ~NonNull(loginReply, boxField) THEN Result(h, out)
  ELSE IF ~CanDecrypt(loginReply[boxField], key) THEN Throw(h, "DecryptError")
  ELSE Result(SetField(h, out, keyField,
                       Base64Stringify(decrypt(loginReply[boxField], key))), out)

RECURSIVE applyLoginReplyInner(_, _, _, _), applyReplyChildren(_, _, _, _, _, _)
applyLoginReplyInner(h, stash, key, loginReply) ==
  LET out == NewId(h)
      h1 == preserveClientData(
              Alloc(h, filterObject(loginReply, ReplyAllowlist)), out, stash)
      r2 == storeKey(h1, out, loginReply, key, "pin2KeyBox", "pin2Key")
  IN IF r2.err # NoError THEN r2
     ELSE
     LET r3 == storeKey(r2.heap, out, loginReply, key, "recovery2KeyBox", "recovery2Key")
     IN IF r3.err # NoError THEN r3
        ELSE
        LET h4 == SetField(r3.heap, out, "keyBoxes",
                    IF NonNull(loginReply, "keyBoxes") THEN loginReply.keyBoxes ELSE <<>>)
            stashChildren == ChildrenOf(h4, stash)
            replyChildren ==
              IF NonNull(loginReply, "children") THEN loginReply.children ELSE <<>>
        IN IF lostChildren(stashChildren, replyChildren)
           THEN Throw(h4, "ServerLostChildren")
           ELSE LET r5 == applyReplyChildren(h4, stashChildren, key, replyChildren, 1, <<>>)
                IN IF r5.err # NoError THEN r5
                   ELSE Result(SetField(r5.heap, out, "children", r5.out), out)
\* (mutant) the stash child is looked up by the appId of the reply child
RECURSIVE applyReplyChildrenByAppId(_, _, _, _, _, _)
applyReplyChildrenByAppId(h, stashChildren, key, replyChildren, index, acc) ==
  IF index > Len(replyChildren) THEN Result(h, acc)
  ELSE
  LET child == replyChildren[index]
      same == { k \in 1..Len(stashChildren) :
                  Get(h[stashChildren[k]], "appId") = Get(child, "appId") }
  IN IF noParentBox(child) THEN Throw(h, "KeyIntegrity")
     ELSE IF ~CanDecrypt(child.parentBox, key) THEN Throw(h, "DecryptError")
     ELSE
     LET childKey == decrypt(child.parentBox, key)
         known == same # {}
         h1 == IF known THEN h
               ELSE Alloc(h, [appId |-> Get(child, "appId"),
                              loginId |-> Get(child, "loginId")])
         childStash == IF known THEN stashChildren[CHOOSE k \in same : \A j \in same : k <= j]
                       ELSE NewId(h)
         r == applyLoginReplyInner(h1, childStash, childKey, child)
     IN IF r.err # NoError THEN r
        ELSE applyReplyChildrenByAppId(r.heap, stashChildren, key, replyChildren,
                                       index + 1, Append(acc, r.out))
applyReplyChildren(h, stashChildren, key, replyChildren, index, acc) ==
  IF index > Len(replyChildren) THEN Result(h, acc)
  ELSE
  LET child == replyChildren[index]
  IN IF noParentBox(child) THEN Throw(h, "KeyIntegrity")
     ELSE IF ~CanDecrypt(child.parentBox, key) THEN Throw(h, "DecryptError")
     ELSE
     LET childKey == decrypt(child.parentBox, key)
         known == index <= Len(stashChildren)
         h1 == IF known THEN h
               ELSE Alloc(h, [appId |-> Get(child, "appId"),
                              loginId |-> Get(child, "loginId")])
         childStash == IF known THEN stashChildren[index] ELSE NewId(h)
         r == applyLoginReplyInner(h1, childStash, childKey, child)
     IN IF r.err # NoError THEN r
        ELSE applyReplyChildren(r.heap, stashChildren, key, replyChildren,
                                index + 1, Append(acc, r.out))

-----------------------------------------------------------------------------
(* login.ts: the login tree builder. *)

\* A step of makeLoginTreeInner that runs only if no earlier step threw.
\* `login.<field> = decrypt(stash.<boxField>, loginKey)` when the box is set
decryptInto(r, stash, key, boxField, field) ==
  IF r.err # NoError \/ ~NonNull(r.heap[stash], boxField) THEN r
  ELSE IF ~CanDecrypt(r.heap[stash][boxField], key) THEN Throw(r.heap, "DecryptError")
  ELSE Result(SetField(r.heap, r.out, field, decrypt(r.heap[stash][boxField], key)),
              r.out)

\* `if (login.userId == null) login.userId = loginId` under passwordAuthBox
defaultUserId(r, stash) ==
  IF r.err # NoError \/ ~NonNull(r.heap[stash], "passwordAuthBox") THEN r
  ELSE IF NonNull(r.heap[r.out], "userId") THEN r
  ELSE Result(SetField(r.heap, r.out, "userId", Get(r.heap[stash], "loginId")), r.out)

\* `login.loginAuth == null && login.passwordAuth == null`
missingAuth(login) == ~NonNull(login, "loginAuth") /\ ~NonNull(login, "passwordAuth")

\* (mutant) accepts a login without server authentication
requireAuthNever(r) == r

requireAuth(r) ==
  IF r.err # NoError THEN r
  ELSE IF missingAuth(r.heap[r.out]) THEN Throw(r.heap, "MissingAuth")
  ELSE r

\* `login.<field> = base64.parse(stash.<field>)` when set
parseInto(r, stash, field) ==
  IF r.err # NoError \/ ~NonNull(r.heap[stash], field) THEN r
  ELSE IF ~CanBase64Parse(r.heap[stash][field]) THEN Throw(r.heap, "ParseError")
  ELSE Result(SetField(r.heap, r.out, field, Base64Parse(r.heap[stash][field])), r.out)

\* The legacy BitID and account-settings keys, then the key boxes.
legacyKeys(stash, key) ==
  (IF NonNull(stash, "mnemonicBox") /\ NonNull(stash, "rootKeyBox")
   THEN <<"wallet:bitid">> ELSE <<>>)
  \o (IF NonNull(stash, "syncKeyBox")
      THEN <<"account:" \o Get(stash, "appId")>> ELSE <<>>)
legacyKeysDecrypt(stash, key) ==
  /\ (NonNull(stash, "mnemonicBox") /\ NonNull(stash, "rootKeyBox")) =>
        /\ CanDecrypt(stash.rootKeyBox, key)
        /\ CanDecrypt(stash.mnemonicBox, hmacSha256(decrypt(stash.rootKeyBox, key)))
  /\ NonNull(stash, "syncKeyBox") => CanDecrypt(stash.syncKeyBox, key)
keyInfosInto(r, stash, key) ==
  IF r.err # NoError THEN r
  ELSE
  LET s == r.heap[stash]
      keyBoxes == IF NonNull(s, "keyBoxes") THEN s.keyBoxes ELSE <<>>
  IN IF ~legacyKeysDecrypt(s, key)
        \/ \E i \in 1..Len(keyBoxes) : ~CanDecrypt(keyBoxes[i], key)
     THEN Throw(r.heap, "DecryptError")
     ELSE Result(SetField(r.heap, r.out, "keyInfos",
                   mergeKeyInfos(legacyKeys(s, key)
                     \o [i \in 1..Len(keyBoxes) |-> decrypt(keyBoxes[i], key)])),
                 r.out)

RECURSIVE makeLoginTreeInner(_, _, _), makeLoginChildren(_, _, _, _, _)
makeLoginTreeInner(h, stash, key) ==
  LET s == h[stash]
      login == [ appId |-> Get(s, "appId"),
                 created |-> Get(s, "created"),
                 lastLogin |-> elvis(Get(s, "lastLogin"), Now),
                 loginId |-> Get(s, "loginId"),
                 otpKey |-> Get(s, "otpKey"),
                 otpResetDate |-> Get(s, "otpResetDate"),
                 otpTimeout |-> Get(s, "otpTimeout"),
                 userId |-> Get(s, "userId"),
                 username |-> Get(s, "username"),
                 loginKey |-> key,
                 children |-> <<>>,
                 keyInfos |-> <<>> ]
      r0 == Result(Alloc(h, login), NewId(h))
      r1 == decryptInto(r0, stash, key, "loginAuthBox", "loginAuth")
      r2 == decryptInto(defaultUserId(r1, stash), stash, key,
                        "passwordAuthBox", "passwordAuth")
      r3 == requireAuth(r2)
      r4 == parseInto(r3, stash, "pin2Key")
      r5 == decryptInto(r4, stash, key, "pin2TextBox", "pin")
      r6 == parseInto(r5, stash, "recovery2Key")
      r7 == keyInfosInto(r6, stash, key)
  IN IF r7.err # NoError THEN r7
     ELSE LET r8 == makeLoginChildren(r7.heap, ChildrenOf(r7.heap, stash), key, 1, <<>>)
          IN IF r8.err # NoError THEN r8
             ELSE Result(SetField(r8.heap, r7.out, "children", r8.out), r7.out)
\* (mutant) the children are built under their parent's key, whatever their
\* parentBox
RECURSIVE makeLoginChildrenSameKey(_, _, _, _, _)
makeLoginChildrenSameKey(h, stashChildren, key, index, acc) ==
  IF index > Len(stashChildren) THEN Result(h, acc)
  ELSE LET r == makeLoginTreeInner(h, stashChildren[index], key)
       IN IF r.err # NoError THEN r
          ELSE makeLoginChildrenSameKey(r.heap, stashChildren, key, index + 1,
                                        Append(acc, r.out))
makeLoginChildren(h, stashChildren, key, index, acc) ==
  IF index > Len(stashChildren) THEN Result(h, acc)
  ELSE
  LET child == h[stashChildren[index]]
  IN IF noParentBox(child) THEN Throw(h, "KeyIntegrity")
     ELSE IF ~CanDecrypt(child.parentBox, key) THEN Throw(h, "DecryptError")
     ELSE LET r == makeLoginTreeInner(h, stashChildren[index],
                                      decrypt(child.parentBox, key))
          IN IF r.err # NoError THEN r
             ELSE makeLoginChildren(r.heap, stashChildren, key, index + 1,
                                    Append(acc, r.out))

-----------------------------------------------------------------------------
(* login.ts: updateTree and its three callers.  The callbacks are selected *)
(* by the name of the caller; `arg` holds what the callbacks close over.   *)

\* A list property that softCat keeps: a missing list adds nothing
ListOf(o, f) == IF NonNull(o, f) THEN o[f] ELSE <<>>

\* (mutant) the kit's lists replace the old ones
mergeLoginReplacing(h, node, kit) ==
  Result(Alloc(h, kit.login @@ h[node]), NewId(h))

\* The update callbacks of applyKit: `{ ...login, ...kit.login, children,
\* keyInfos }` and `{ ...stash, ...kit.stash, children, keyBoxes }`
mergeLogin(h, node, kit) ==
  Result(
    Alloc(h,
      [children |-> softCat(ListOf(h[node], "children"), ListOf(kit.login, "children")),
       keyInfos |-> mergeKeyInfos(softCat(ListOf(h[node], "keyInfos"),
                                          ListOf(kit.login, "keyInfos")))]
        @@ kit.login @@ h[node]),
    NewId(h))
mergeStash(h, node, kit) ==
  Result(
    Alloc(h,
      [children |-> softCat(ListOf(h[node], "children"), ListOf(kit.stash, "children")),
       keyBoxes |-> softCat(ListOf(h[node], "keyBoxes"), ListOf(kit.stash, "keyBoxes"))]
        @@ kit.stash @@ h[node]),
    NewId(h))

predicate(node, caller, arg) ==
  CASE caller = "applyLoginReply" ->
         Get(node, "appId") = Get(arg.loginReply, "appId")
    [] caller \in {"applyKit", "applyKitStash"} ->
         Get(node, "loginId") = arg.kit.loginId
    [] OTHER -> Get(node, "appId") = arg.appId

update(h, node, caller, arg) ==
  CASE caller = "applyLoginReply" ->
         applyLoginReplyInner(h, node, arg.loginKey, arg.loginReply)
    [] caller = "makeLoginTree" -> makeLoginTreeInner(h, node, arg.loginKey)
    [] caller = "sanitizeLoginStash" -> Result(h, node)
    [] caller = "applyKit" -> mergeLogin(h, node, arg.kit)
    [] caller = "applyKitStash" -> mergeStash(h, node, arg.kit)

clone(h, node, children, caller) ==
  IF caller \in {"applyLoginReply", "applyKit", "applyKitStash"}
  THEN cloneNode(h, node, children)
  ELSE cloneOuter(h, node, children)

\* (mutant) only the first match in pre-order is handed to `update`; the
\* matches after it are cloned
RECURSIVE firstMatch(_, _, _, _), firstMatchIn(_, _, _, _, _)
firstMatch(h, node, caller, arg) ==
  IF predicate(h[node], caller, arg) THEN node
  ELSE firstMatchIn(h, ChildrenOf(h, node), caller, arg, 1)
firstMatchIn(h, children, caller, arg, i) ==
  IF i > Len(children) THEN 0
  ELSE LET out == firstMatch(h, children[i], caller, arg)
       IN IF out # 0 THEN out ELSE firstMatchIn(h, children, caller, arg, i + 1)
RECURSIVE updateOnly(_, _, _, _, _), updateOnlyIn(_, _, _, _, _, _, _)
updateOnly(h, node, target, caller, arg) ==
  IF node = target THEN update(h, node, caller, arg)
  ELSE LET r == updateOnlyIn(h, ChildrenOf(h, node), target, caller, arg, 1, <<>>)
       IN IF r.err # NoError THEN r
          ELSE clone(r.heap, node, r.out, caller)
updateOnlyIn(h, children, target, caller, arg, i, acc) ==
  IF i > Len(children) THEN Result(h, acc)
  ELSE LET r == updateOnly(h, children[i], target, caller, arg)
       IN IF r.err # NoError THEN r
          ELSE updateOnlyIn(r.heap, children, target, caller, arg, i + 1,
                            Append(acc, r.out))
updateTreeFirstOnly(h, node, caller, arg) ==
  updateOnly(h, node, firstMatch(h, node, caller, arg), caller, arg)

RECURSIVE updateTree(_, _, _, _), updateChildren(_, _, _, _, _, _)
updateTree(h, node, caller, arg) ==
  IF predicate(h[node], caller, arg) THEN update(h, node, caller, arg)
  ELSE LET r == updateChildren(h, ChildrenOf(h, node), caller, arg, 1, <<>>)
       IN IF r.err # NoError THEN r
          ELSE clone(r.heap, node, r.out, caller)
updateChildren(h, children, caller, arg, i, acc) ==
  IF i > Len(children) THEN Result(h, acc)
  ELSE LET r == updateTree(h, children[i], caller, arg)
       IN IF r.err # NoError THEN r
          ELSE updateChildren(r.heap, children, caller, arg, i + 1, Append(acc, r.out))

applyLoginReply(h, tree, key, loginReply) ==
  updateTree(h, tree, "applyLoginReply", [loginKey |-> key, loginReply |-> loginReply])

makeLoginTree(h, tree, key, app) ==
  updateTree(h, tree, "makeLoginTree", [loginKey |-> key, appId |-> app])

sanitizeLoginStash(h, tree, app) ==
  updateTree(h, tree, "sanitizeLoginStash", [appId |-> app])

-----------------------------------------------------------------------------
(* The enumerated inputs.  A shape lists, for each child of the root,      *)
(* whether that child has a child of its own.  A node is named by its path *)
(* ("" the root, "2" the second child, "21" its child); the login key of   *)
(* the node at path p is "K" \o p.  Values that come from the stash start  *)
(* with "s:", values that come from the server with "r:".                  *)

Shapes == UNION { [1..n -> BOOLEAN] : n \in 0..MaxKids }
PathOf(i) == ToString(i)
PathsOf(shape) ==
  {""} \cup { PathOf(i) : i \in 1..Len(shape) }
       \cup { PathOf(i) \o "1" : i \in { j \in 1..Len(shape) : shape[j] } }
KeyAt(path) == "K" \o path
WrongKey == "Kx"
AppNames == <<"a", "b", "c", "d", "e">>
GrandAppId == "g"
AppIds == {"", "a", "b", GrandAppId}

Defects(kinds, paths) ==
  {[kind |-> "none", at |-> ""]} \cup [kind : kinds, at : paths]

\* One LoginStash node.
StashNode(path, app, parentKey, flavor, defect, kids) ==
  LET key == IF defect = [kind |-> "badBoxes", at |-> path] THEN WrongKey
             ELSE KeyAt(path)
      base == [appId |-> app, loginId |-> "s:L" \o path]
      auth == IF defect.at = path /\ defect.kind \in {"noAuth", "orphan"} THEN base
              ELSE With(base, "loginAuthBox", Box(key, "auth"))
      boxed == IF path = ""
                  \/ (defect.at = path /\ defect.kind \in {"noParentBox", "orphan"})
               THEN auth
               ELSE With(auth, "parentBox", Box(parentKey, KeyAt(path)))
      named == IF path = "" THEN With(boxed, "username", "edge") ELSE boxed
      full == [ lastLogin |-> "s:lastLogin", userId |-> "s:userId",
                voucherId |-> "s:voucherId", voucherAuth |-> "s:voucherAuth",
                otpKey |-> "s:otpKey", pin2Key |-> Base64Stringify("pin2"),
                pin2TextBox |-> Box(key, "1234"),
                keyBoxes |-> <<Box(key, "wallet:s")>> ] @@ named
      node == IF flavor = "full" THEN full ELSE named
  IN IF flavor = "full" \/ kids # <<>> THEN With(node, "children", kids) ELSE node

StashTreeOf(shape, labels, flavor, defect) ==
  StashNode("", "", "", flavor, defect,
    [i \in 1..Len(shape) |->
       StashNode(PathOf(i), labels[i], KeyAt(""), flavor, defect,
         IF shape[i]
         THEN <<StashNode(PathOf(i) \o "1", GrandAppId, KeyAt(PathOf(i)),
                          flavor, defect, <<>>)>>
         ELSE <<>>)])

\* The first child is app "a"; a later one repeats "a" or is app "b".
Labellings(shape) ==
  { l \in [1..Len(shape) -> {"a", "b"}] : Len(shape) > 0 => l[1] = "a" }

\* One LoginReply node.
ReplyNode(path, app, parentKey, extras, defect, kids) ==
  LET key == IF defect = [kind |-> "badBoxes", at |-> path] THEN WrongKey
             ELSE KeyAt(path)
      base == [appId |-> app, loginId |-> "r:L" \o path,
               loginAuthBox |-> Box(key, "auth")]
      boxed == IF (path = "" /\ app = "")
                  \/ defect = [kind |-> "noParentBox", at |-> path]
               THEN base
               ELSE With(base, "parentBox", Box(parentKey, KeyAt(path)))
      extra == [ userId |-> "r:userId", otpKey |-> "r:otpKey",
                 username |-> "r:username", lastLogin |-> "r:lastLogin",
                 voucherId |-> "r:voucherId", voucherAuth |-> "r:voucherAuth",
                 pin2Box |-> Box(key, "r:pin2Box"),
                 question2Box |-> Box(key, "r:question2Box"),
                 recovery2Box |-> Box(key, "r:recovery2Box"),
                 pin2KeyBox |-> Box(key, "pin2"),
                 recovery2KeyBox |-> Box(key, "rec2"),
                 passwordAuthBox |-> Box(key, "pwauth"),
                 keyBoxes |-> <<Box(key, "wallet:r")>> ] @@ boxed
      node == IF extras THEN extra ELSE boxed
  IN IF extras \/ kids # <<>> THEN With(node, "children", kids) ELSE node

ReplyTreeOf(app, shape, extras, defect) ==
  ReplyNode("", app, "", extras, defect,
    [i \in 1..Len(shape) |->
       ReplyNode(PathOf(i), AppNames[i], KeyAt(""), extras, defect,
         IF shape[i]
         THEN <<ReplyNode(PathOf(i) \o "1", GrandAppId, KeyAt(PathOf(i)),
                          extras, defect, <<>>)>>
         ELSE <<>>)])

StashTrees ==
  UNION { { StashTreeOf(shape, l, flavor, [kind |-> "none", at |-> ""]) :
              l \in Labellings(shape), flavor \in {"bare", "full"} } :
          shape \in Shapes }

ReplyTrees ==
  UNION { { ReplyTreeOf(app, shape, extras, d) :
              app \in {"", "a", "b"}, extras \in BOOLEAN,
              d \in Defects({"noParentBox", "badBoxes"}, PathsOf(shape)) } :
          shape \in Shapes }

-----------------------------------------------------------------------------
(* What the specifications of the pure functions leave idle. *)

NoReply == [appId |-> "", loginId |-> ""]
NoServerError == [name |-> NoError]
NoOpts == [now |-> Undef]

IdleCaller ==
  /\ loginStash = stashTree
  /\ loginTree = 0
  /\ error = NoServerError
  /\ opts = NoOpts
  /\ deviceDescription = Undef
  /\ appId = ""
  /\ pc = "ready"
  /\ ret = [err |-> NoError, out |-> 0]
  /\ ret0 = [err |-> NoError, out |-> 0]

IdleIo ==
  /\ disk = <<>>
  /\ pending = <<>>
  /\ log = <<>>
  /\ calls = <<>>

-----------------------------------------------------------------------------
(* Reconciliation: applyLoginReply on an enumerated stash and reply, then  *)
(* makeLoginTree on its result, as serverLogin and syncLogin chain them.   *)

InitReply ==
  /\ \E t \in StashTrees :
       /\ heap = Load(<<>>, t).heap
       /\ stashTree = Load(<<>>, t).out
  /\ loginKey = KeyAt("")
  /\ reply \in ReplyTrees
  /\ IdleCaller
  /\ IdleIo

ApplyLoginReply ==
  /\ pc = "ready"
  /\ LET r == applyLoginReply(heap, stashTree, loginKey, reply)
     IN /\ heap' = r.heap
        /\ ret' = [err |-> r.err, out |-> r.out]
  /\ ret0' = ret
  /\ pc' = "applied"
  /\ UNCHANGED <<args, appId, io>>

\* makeLoginTree(newStashTree, loginKey, reply.appId)
MakeLoginTreeOfReply ==
  /\ pc = "applied"
  /\ ret.err = NoError
  /\ appId' = reply.appId
  /\ LET r == makeLoginTree(heap, ret.out, loginKey, reply.appId)
     IN /\ heap' = r.heap
        /\ ret' = [err |-> r.err, out |-> r.out]
  /\ ret0' = ret
  /\ pc' = "built"
  /\ UNCHANGED <<args, io>>

NextReply == ApplyLoginReply \/ MakeLoginTreeOfReply

SpecReply == InitReply /\ [][NextReply]_vars

-----------------------------------------------------------------------------
(* makeLoginTree and sanitizeLoginStash on an enumerated stash tree, which *)
(* may have a node without parentBox, without authentication boxes, or     *)
(* with boxes under another key.                                           *)

DefectiveStashTrees ==
  UNION { { StashTreeOf(shape, l, flavor, d) :
              l \in Labellings(shape), flavor \in {"bare", "full"},
              d \in Defects({"noParentBox", "noAuth", "badBoxes", "orphan"},
                           PathsOf(shape)) } :
          shape \in Shapes }

OtherAppId == "zz"

\* The login keys of the nodes of the tree, and one that opens nothing.
KeysIn(h) ==
  {KeyAt(""), WrongKey}
    \cup { h[id].parentBox.data : id \in { i \in 1..Len(h) : "parentBox" \in DOMAIN h[i] } }

InitStash ==
  /\ \E t \in DefectiveStashTrees :
       /\ heap = Load(<<>>, t).heap
       /\ stashTree = Load(<<>>, t).out
  /\ loginKey = KeyAt("")
  /\ reply = NoReply
  /\ IdleCaller
  /\ IdleIo

MakeLoginTree ==
  /\ pc = "ready"
  /\ \E app \in AppIds \cup {OtherAppId}, key \in KeysIn(heap) :
       LET r == makeLoginTree(heap, stashTree, key, app)
       IN /\ heap' = r.heap
          /\ ret' = [err |-> r.err, out |-> r.out]
          /\ appId' = app
          /\ loginKey' = key
  /\ ret0' = ret
  /\ pc' = "built"
  /\ UNCHANGED <<stashTree, loginStash, loginTree, reply, error, opts,
                  deviceDescription, io>>

SanitizeLoginStash ==
  /\ pc = "ready"
  /\ \E app \in AppIds \cup {OtherAppId} :
       LET r == sanitizeLoginStash(heap, stashTree, app)
       IN /\ heap' = r.heap
          /\ ret' = [err |-> r.err, out |-> r.out]
          /\ appId' = app
  /\ ret0' = ret
  /\ pc' = "sanitized"
  /\ UNCHANGED <<args, io>>

\* sanitizeLoginStash applied to its own result, with the same appId
SanitizeAgain ==
  /\ pc = "sanitized"
  /\ LET r == sanitizeLoginStash(heap, ret.out, appId)
     IN /\ heap' = r.heap
        /\ ret' = [err |-> r.err, out |-> r.out]
  /\ ret0' = ret
  /\ pc' = "sanitized2"
  /\ UNCHANGED <<args, appId, io>>

NextStash == MakeLoginTree \/ SanitizeLoginStash \/ SanitizeAgain

SpecStash == InitStash /\ [][NextStash]_vars

-----------------------------------------------------------------------------
(* Vocabulary of the properties. *)

Range(seq) == { seq[i] : i \in 1..Len(seq) }

\* The nodes updateTree hands to `update`: those with the wanted appId that
\* have no ancestor with it.
RECURSIVE Targets(_, _, _)
Targets(h, node, app) ==
  IF Get(h[node], "appId") = app THEN {node}
  ELSE UNION { Targets(h, c, app) : c \in Range(ChildrenOf(h, node)) }

ReplyChildren(r) == IF "children" \in DOMAIN r THEN r.children ELSE <<>>

\* Somewhere in the subtree paired by index, the stash node has more
\* children than the reply node.
RECURSIVE LostAnywhere(_, _, _)
LostAnywhere(h, stash, r) ==
  \/ Len(ChildrenOf(h, stash)) > Len(ReplyChildren(r))
  \/ \E i \in 1..Len(ChildrenOf(h, stash)) :
       i <= Len(ReplyChildren(r))
       /\ LostAnywhere(h, ChildrenOf(h, stash)[i], ReplyChildren(r)[i])

LostBelowRoot(h, stash, r) ==
  /\ Len(ChildrenOf(h, stash)) <= Len(ReplyChildren(r))
  /\ LostAnywhere(h, stash, r)

ReplyLosesChildren ==
  \E t \in Targets(heap, stashTree, reply.appId) : LostAnywhere(heap, t, reply)

\* C1 as stated: whenever the stash has more children than the reply at some
\* depth of the reconciled subtree, applyLoginReply fails with
\* ServerLostChildren.
C1_AlwaysServerLostChildren ==
  (pc = "applied" /\ ReplyLosesChildren) => ret.err = "ServerLostChildren"

\* C1 amended: in that case applyLoginReply never returns a stash; it fails
\* with ServerLostChildren or with the key-integrity or decryption error that
\* the traversal meets first.
C1_LostChildrenRejected ==
  (pc = "applied" /\ ReplyLosesChildren) =>
    ret.err \in {"ServerLostChildren", "KeyIntegrity", "DecryptError"}

C1_Witness ==
  /\ pc = "applied"
  /\ ret.err = "ServerLostChildren"
  /\ \E t \in Targets(heap, stashTree, reply.appId) : LostBelowRoot(heap, t, reply)

\* The node `out` was produced by applyLoginReplyInner from reply node `r`:
\* its fields are allowlisted or client-side, and nothing the reply carries
\* outside the allowlist, keyBoxes and children shows in it.
ReconciledFields ==
  ReplyAllowlist \cup {"lastLogin", "username", "pin2Key", "recovery2Key",
                       "keyBoxes", "children"}
RECURSIVE OnlyTrusted(_, _, _)
OnlyTrusted(h, out, r) ==
  /\ DOMAIN h[out] \subseteq ReconciledFields
  /\ \A f \in DOMAIN r \ (ReplyAllowlist \cup {"keyBoxes", "children"}) :
       f \in DOMAIN h[out] => h[out][f] # r[f]
  /\ Len(ChildrenOf(h, out)) = Len(ReplyChildren(r))
  /\ \A i \in 1..Len(ChildrenOf(h, out)) :
       OnlyTrusted(h, ChildrenOf(h, out)[i], ReplyChildren(r)[i])

\* The pairs <<old node, new node>> at the places where `update` ran.
RECURSIVE Updated(_, _, _, _)
Updated(h, old, new, app) ==
  IF Get(h[old], "appId") = app THEN {<<old, new>>}
  ELSE UNION { Updated(h, ChildrenOf(h, old)[i], ChildrenOf(h, new)[i], app) :
                 i \in 1..Len(ChildrenOf(h, old)) }

\* C2: every node applyLoginReplyInner produces has only allowlisted fields
\* plus lastLogin, username, pin2Key, recovery2Key, keyBoxes and children, and
\* no reply field outside the allowlist reaches the output stash.
C2_OnlyAllowlistedFields ==
  (pc = "applied" /\ ret.err = NoError) =>
    \A p \in Updated(heap, stashTree, ret.out, reply.appId) :
      OnlyTrusted(heap, p[2], reply)

C2_Witness ==
  /\ pc = "applied"
  /\ ret.err = NoError
  /\ {"pin2Box", "username", "voucherId"} \subseteq DOMAIN reply
  /\ \E p \in Updated(heap, stashTree, ret.out, reply.appId) :
       /\ "username" \in DOMAIN heap[p[2]]
       /\ Len(ChildrenOf(heap, p[2])) > 0

\* C3: applyLoginReply writes to no object that existed before the call,
\* whether it returns a tree or throws.
C3_InputNotMutated ==
  [][(pc = "ready" /\ pc' = "applied") =>
       /\ Len(heap') >= Len(heap)
       /\ \A id \in 1..Len(heap) : heap'[id] = heap[id]]_vars

C3_Witness ==
  /\ pc = "applied"
  /\ ret.err = "ServerLostChildren"
  /\ stashTree # searchTree(heap, stashTree, "appId", reply.appId)
  /\ Len(heap) > Cardinality(TreeIds(heap, stashTree))

\* C4 as stated: the login tree built from the reconciled stash with the
\* reply's appId has the reply's loginId.
C4_RootHasReplyLoginId ==
  (pc = "built" /\ ret.err = NoError) =>
    Get(heap[ret.out], "loginId") = reply.loginId

\* C4 amended: when the stash tree has a node with the reply's appId, the
\* first node with that appId in the built login tree has the reply's
\* loginId; it is the root of the result only when the root stash has that
\* appId.
C4_TargetHasReplyLoginId ==
  (pc = "built" /\ ret.err = NoError
     /\ searchTree(heap, stashTree, "appId", reply.appId) # 0) =>
    /\ searchTree(heap, ret.out, "appId", reply.appId) # 0
    /\ heap[searchTree(heap, ret.out, "appId", reply.appId)].loginId = reply.loginId
    /\ Get(heap[stashTree], "appId") = reply.appId =>
         heap[ret.out].loginId = reply.loginId

C4_Witness ==
  /\ pc = "built"
  /\ ret.err = NoError
  /\ searchTree(heap, stashTree, "appId", reply.appId) \notin {0, stashTree}
  /\ heap[ret.out].loginId # reply.loginId

\* The pairs <<old node, new node>> at the places where `clone` ran: the
\* nodes outside every subtree rooted at a node with the wanted appId.
RECURSIVE Outside(_, _, _, _)
Outside(h, old, new, app) ==
  IF Get(h[old], "appId") = app THEN {}
  ELSE {<<old, new>>}
       \cup UNION { Outside(h, ChildrenOf(h, old)[i], ChildrenOf(h, new)[i], app) :
                      i \in 1..Len(ChildrenOf(h, old)) }

\* `new` carries username, appId and loginId of `old` where `old` has them,
\* a children list, and nothing else.
Stripped(h, old, new) ==
  /\ DOMAIN h[new] \subseteq {"username", "appId", "loginId", "children"}
  /\ DOMAIN h[new] \cap {"loginKey", "loginAuth", "passwordAuth", "pin",
                          "pin2Key", "recovery2Key", "keyInfos"} = {}
  /\ "children" \in DOMAIN h[new]
  /\ Len(h[new].children) = Len(ChildrenOf(h, old))
  /\ \A f \in {"username", "appId", "loginId"} :
       /\ f \in DOMAIN h[new] <=> f \in DOMAIN h[old]
       /\ f \in DOMAIN h[new] => h[new][f] = h[old][f]

\* C5: in the tree makeLoginTree returns, every node outside the subtree of
\* the target appId carries only username, appId, loginId and children, all
\* taken from the stash: no decrypted material and nothing that depends on
\* the loginKey.
C5_OutsideNodesStripped ==
  (pc = "built" /\ ret.err = NoError) =>
    \A p \in Outside(heap, stashTree, ret.out, appId) : Stripped(heap, p[1], p[2])

C5_Witness ==
  /\ pc = "built"
  /\ ret.err = NoError
  /\ Targets(heap, stashTree, appId) # {}
  /\ \E p \in Outside(heap, stashTree, ret.out, appId) :
       /\ p[1] # stashTree
       /\ {"pin2Key", "loginAuthBox", "keyBoxes"} \subseteq DOMAIN heap[p[1]]

\* C6: sanitizeLoginStash returns each node with the wanted appId together
\* with its whole subtree unchanged, and every node outside those subtrees
\* with only username, appId, loginId and children.
C6_SanitizeKeepsTarget ==
  [][(pc = "ready" /\ pc' = "sanitized") =>
       /\ ret'.err = NoError
       /\ \A p \in Updated(heap', stashTree, ret'.out, appId') :
            Tree(heap', p[2]) = Tree(heap, p[1])
       /\ \A p \in Outside(heap', stashTree, ret'.out, appId') :
            Stripped(heap', p[1], p[2])]_vars

C6_Witness ==
  /\ pc = "sanitized"
  /\ \E p \in Updated(heap, stashTree, ret.out, appId) :
       /\ p[1] # stashTree
       /\ Len(ChildrenOf(heap, p[2])) > 0
       /\ "pin2Key" \in DOMAIN heap[p[2]]
  /\ \E p \in Outside(heap, stashTree, ret.out, appId) :
       /\ p[1] # stashTree
       /\ "pin2Key" \in DOMAIN heap[p[1]]

\* C7: sanitizing a sanitized tree again with the same appId changes
\* nothing, whether or not the appId names a node.
C7_SanitizeIdempotent ==
  pc = "sanitized2" =>
    /\ ret.err = NoError
    /\ Tree(heap, ret.out) = Tree(heap, ret0.out)

C7_Witness ==
  /\ pc = "sanitized2"
  /\ Targets(heap, stashTree, appId) # {}
  /\ stashTree \notin Targets(heap, stashTree, appId)
  /\ Tree(heap, ret.out) # Tree(heap, stashTree)

C7_WitnessNoMatch ==
  /\ pc = "sanitized2"
  /\ Targets(heap, stashTree, appId) = {}
  /\ Len(ChildrenOf(heap, stashTree)) > 0

-----------------------------------------------------------------------------
(* One-time passwords: getLoginOtp, getStashOtp, makeAuthJson. *)

\* hotp.totp: the current code of a secret, taken as a function of the secret
totp(key) == "totp:" \o key

getLoginOtp(login) ==
  IF NonNull(login, "otpKey") THEN totp(login.otpKey) ELSE Undef

\* The longest opts.otp that is enumerated.
MaxOtpLen == 17

\* `otp.length < 16`
OtpCodeLimit == 16

Digits == {"0", "1", "2", "3", "4", "5", "6", "7", "8", "9"}

\* The characters of the enumerated opts.otp values: `n` characters of a
\* pattern, "digits" (1..1), "letters" (A..A), "mixed" (A..A2), "spaced"
\* (1..1 and a blank at the end).
OtpChars(n, pattern) ==
  [i \in 1..n |->
     CASE pattern = "digits" -> "1"
       [] pattern = "letters" -> "A"
       [] pattern = "mixed" -> IF i = n THEN "2" ELSE "A"
       [] pattern = "spaced" -> IF i = n THEN " " ELSE "1"]

OtpPatterns == {"digits", "letters", "mixed", "spaced"}
OtpLengths == {0, 1, 6} \cup ((OtpCodeLimit - 1)..MaxOtpLen)

RECURSIVE Join(_)
Join(chars) == IF chars = <<>> THEN "" ELSE Head(chars) \o Join(Tail(chars))

OtpTexts == { Join(OtpChars(n, p)) : n \in OtpLengths, p \in OtpPatterns }

\* The characters of a string
Chars(text) ==
  CHOOSE chars \in { OtpChars(n, p) : n \in OtpLengths, p \in OtpPatterns } :
    Join(chars) = text

\* `/[0-9]+/.test(otp)`
hasDigit(otp) == \E i \in 1..Len(otp) : Chars(otp)[i] \in Digits

getStashOtp(stashNode, options) ==
  LET otp == Get(options, "otp")
      otpKey == IF Get(options, "otpKey") # Undef
                THEN options.otpKey ELSE Get(stashNode, "otpKey")
  IN IF otp # Undef
     THEN IF hasDigit(otp) /\ Len(otp) < OtpCodeLimit THEN otp ELSE totp(otp)
     ELSE IF otpKey # Undef THEN totp(otpKey) ELSE Undef

\* (mutant) tries the password first
makeAuthJsonPasswordFirst(h, id) ==
  IF NonNull(h[id], "passwordAuth")
  THEN Result(Alloc(h, [userId |-> Get(h[id], "userId"),
                        passwordAuth |-> Base64Stringify(h[id].passwordAuth),
                        otp |-> getLoginOtp(h[id])]), NewId(h))
  ELSE IF NonNull(h[id], "loginAuth")
  THEN Result(Alloc(h, [loginId |-> Get(h[id], "loginId"),
                        loginAuth |-> Base64Stringify(h[id].loginAuth),
                        otp |-> getLoginOtp(h[id])]), NewId(h))
  ELSE Throw(h, "NoAuth")

makeAuthJson(h, id) ==
  IF NonNull(h[id], "loginAuth")
  THEN Result(Alloc(h, [loginId |-> Get(h[id], "loginId"),
                        loginAuth |-> Base64Stringify(h[id].loginAuth),
                        otp |-> getLoginOtp(h[id])]), NewId(h))
  ELSE IF NonNull(h[id], "passwordAuth")
  THEN Result(Alloc(h, [userId |-> Get(h[id], "userId"),
                        passwordAuth |-> Base64Stringify(h[id].passwordAuth),
                        otp |-> getLoginOtp(h[id])]), NewId(h))
  ELSE Throw(h, "NoAuth")

\* Optional scalar fields: missing, present and undefined, or set.
Optional(f, values) ==
  { <<>>, (f :> Undef) } \cup { (f :> v) : v \in values }

LoginNodes ==
  { [appId |-> "", loginId |-> "s:L", userId |-> "s:userId"]
      @@ loginAuth @@ passwordAuth @@ otpKey :
      loginAuth \in { <<>>, [loginAuth |-> "s:loginAuth"] },
      passwordAuth \in { <<>>, [passwordAuth |-> "s:passwordAuth"] },
      otpKey \in Optional("otpKey", {"s:otpKey"}) }

OtpStashes ==
  { [appId |-> "", loginId |-> "s:L", username |-> "s:username"] @@ otpKey :
      otpKey \in Optional("otpKey", {"s:otpKey"}) }

OtpOptions ==
  { otp @@ otpKey :
      otp \in { <<>>, [otp |-> Undef] } \cup { [otp |-> t] : t \in OtpTexts },
      otpKey \in Optional("otpKey", {"o:otpKey"}) }

InitAuth ==
  /\ \E l \in LoginNodes, st \in OtpStashes : heap = <<st, l>>
  /\ stashTree = 1
  /\ loginStash = 1
  /\ loginTree = 2
  /\ loginKey = KeyAt("")
  /\ reply = NoReply
  /\ error = NoServerError
  /\ opts \in OtpOptions
  /\ deviceDescription = Undef
  /\ appId = ""
  /\ pc = "ready"
  /\ ret = [err |-> NoError, out |-> 0]
  /\ ret0 = [err |-> NoError, out |-> 0]
  /\ IdleIo

MakeAuthJson ==
  /\ pc = "ready"
  /\ LET r == makeAuthJson(heap, loginTree)
     IN /\ heap' = r.heap
        /\ ret' = [err |-> r.err, out |-> r.out]
  /\ ret0' = ret
  /\ pc' = "authed"
  /\ UNCHANGED <<args, appId, io>>

GetStashOtp ==
  /\ pc = "ready"
  /\ ret' = [err |-> NoError, out |-> getStashOtp(heap[loginStash], opts)]
  /\ ret0' = ret
  /\ pc' = "otp"
  /\ UNCHANGED <<heap, args, appId, io>>

NextAuth == MakeAuthJson \/ GetStashOtp

SpecAuth == InitAuth /\ [][NextAuth]_vars

-----------------------------------------------------------------------------
(* Claims on makeAuthJson and getStashOtp. *)

\* C8: makeAuthJson answers {loginId, loginAuth, otp} whenever the login has
\* loginAuth, {userId, passwordAuth, otp} only when it has passwordAuth and no
\* loginAuth, fails with NoAuth when it has neither, and the otp of the
\* request holds no value when the login has no otpKey (and the current code
\* of the otpKey when it has one).
C8_AuthJsonPrefersLoginAuth ==
  pc = "authed" =>
    LET l == heap[loginTree]
        otp == IF NonNull(l, "otpKey") THEN totp(l.otpKey) ELSE Undef
    IN /\ NonNull(l, "loginAuth") =>
            /\ ret.err = NoError
            /\ heap[ret.out] = [loginId |-> l.loginId,
                                loginAuth |-> Base64Stringify(l.loginAuth),
                                otp |-> otp]
       /\ (~NonNull(l, "loginAuth") /\ NonNull(l, "passwordAuth")) =>
            /\ ret.err = NoError
            /\ heap[ret.out] = [userId |-> l.userId,
                                passwordAuth |-> Base64Stringify(l.passwordAuth),
                                otp |-> otp]
       /\ (ret.err = NoError /\ "passwordAuth" \in DOMAIN heap[ret.out]) =>
            ~NonNull(l, "loginAuth") /\ NonNull(l, "passwordAuth")
       /\ (~NonNull(l, "loginAuth") /\ ~NonNull(l, "passwordAuth")) =>
            ret.err = "NoAuth"
       /\ (ret.err = NoError /\ ~NonNull(l, "otpKey")) =>
            heap[ret.out].otp = Undef

\* A login with loginAuth, passwordAuth and no otpKey got a loginAuth request.
C8_Witness ==
  /\ pc = "authed"
  /\ NonNull(heap[loginTree], "loginAuth")
  /\ NonNull(heap[loginTree], "passwordAuth")
  /\ ~NonNull(heap[loginTree], "otpKey")
  /\ ret.err = NoError
  /\ "loginAuth" \in DOMAIN heap[ret.out]
  /\ heap[ret.out].otp = Undef

\* opts.otp is a string made only of digits
OnlyDigits(otp) == otp # "" /\ \A i \in 1..Len(otp) : Chars(otp)[i] \in Digits

\* C9: getStashOtp returns opts.otp verbatim exactly when it is made only of
\* digits and shorter than 16 characters, TOTP(opts.otp) for any other
\* opts.otp, and without opts.otp TOTP(opts.otpKey), else TOTP(stash.otpKey),
\* else nothing.
C9_VerbatimOnlyDigitCodes ==
  pc = "otp" =>
    LET otp == Get(opts, "otp")
        stashKey == Get(heap[loginStash], "otpKey")
    IN ret.out =
         IF otp # Undef
         THEN IF OnlyDigits(otp) /\ Len(otp) < OtpCodeLimit
              THEN otp ELSE totp(otp)
         ELSE IF Get(opts, "otpKey") # Undef THEN totp(opts.otpKey)
         ELSE IF stashKey # Undef THEN totp(stashKey)
         ELSE Undef

-----------------------------------------------------------------------------
(* login-stash.ts: saveStash, and the disklet it writes to. *)

\* `loginId.length !== 32`
LoginIdLength == 32

\* A loginId that is no base64 text, and one that is base64 of three bytes;
\* every other enumerated loginId is base64 of 32 bytes, '' of none.
MalformedLoginId == "r:L?"
ShortLoginId == "r:L3"
LoginIdParses(text) == text # MalformedLoginId
LoginIdBytes(text) ==
  IF text = "" THEN 0 ELSE IF text = ShortLoginId THEN 3 ELSE LoginIdLength

base58(text) == "b58:" \o text

\* JSON.stringify: a property whose value is undefined is left out
RECURSIVE stringify(_)
stringify(tree) ==
  [ f \in { g \in DOMAIN tree : g \in ObjectFields \/ tree[g] # Undef } |->
      IF f = "children"
      THEN [i \in 1..Len(tree.children) |-> stringify(tree.children[i])]
      ELSE tree[f] ]

\* (mutant) saveStash without the check of the length of the loginId
saveStashStartAnyLength(h, tree) ==
  IF h[tree].appId # "" THEN [err |-> "NoAppId"]
  ELSE IF Get(h[tree], "loginId") = Undef THEN [err |-> "NoLoginId"]
  ELSE IF Get(h[tree], "username") = Undef THEN [err |-> "NoUsername"]
  ELSE IF ~LoginIdParses(h[tree].loginId) THEN [err |-> "SyntaxError"]
  ELSE [err |-> NoError,
        path |-> "logins/" \o base58(h[tree].loginId) \o ".json",
        text |-> stringify(Tree(h, tree)),
        payload |-> tree]

\* saveStash up to its await: the error it throws, or the write it starts.
saveStashStart(h, tree) ==
  IF h[tree].appId # "" THEN [err |-> "NoAppId"]
  ELSE IF Get(h[tree], "loginId") = Undef THEN [err |-> "NoLoginId"]
  ELSE IF Get(h[tree], "username") = Undef THEN [err |-> "NoUsername"]
  ELSE IF ~LoginIdParses(h[tree].loginId) THEN [err |-> "SyntaxError"]
  ELSE IF LoginIdBytes(h[tree].loginId) # LoginIdLength
  THEN [err |-> "InvalidLoginId"]
  ELSE [err |-> NoError,
        path |-> "logins/" \o base58(h[tree].loginId) \o ".json",
        text |-> stringify(Tree(h, tree)),
        payload |-> tree]

\* The calls to the collaborators that are kept in `log`.
FetchCall(method, path, body) ==
  [call |-> "loginFetch", method |-> method, path |-> path, body |-> body]
SaveCall(h, tree) == [call |-> "saveStash", stashTree |-> Tree(h, tree)]
Dispatch(type, payload) ==
  [call |-> "dispatch", type |-> type, payload |-> payload]

Calls(l, name) == SelectSeq(l, LAMBDA c : c.call = name)

\* disklet.setText has finished
Written(files, write) == (write.path :> write.text) @@ files

Remove(seq, i) == SubSeq(seq, 1, i - 1) \o SubSeq(seq, i + 1, Len(seq))

-----------------------------------------------------------------------------
(* login-reply.ts: asLoginReply. *)

ReplyFields ==
  { "appId", "created", "loginId", "otpKey", "otpResetDate", "otpTimeout",
    "loginAuthBox", "parentBox", "passwordAuthBox", "passwordAuthSnrp",
    "passwordBox", "passwordKeySnrp", "pin2Box", "pin2KeyBox", "pin2TextBox",
    "question2Box", "recovery2Box", "recovery2KeyBox", "children", "keyBoxes",
    "mnemonicBox", "rootKeyBox", "syncKeyBox" }

\* The cleaner accepts the raw reply: appId and loginId are strings
RECURSIVE isLoginReply(_)
isLoginReply(raw) ==
  /\ Get(raw, "appId") # Undef
  /\ Get(raw, "loginId") # Undef
  /\ "children" \in DOMAIN raw =>
       \A i \in 1..Len(raw.children) : isLoginReply(raw.children[i])

\* The cleaner's result: the known properties, children cleaned
RECURSIVE asLoginReply(_)
asLoginReply(raw) ==
  [ f \in DOMAIN raw \cap ReplyFields |->
      IF f = "children"
      THEN [i \in 1..Len(raw.children) |-> asLoginReply(raw.children[i])]
      ELSE raw[f] ]

-----------------------------------------------------------------------------
(* login.ts: serverLogin, and syncLogin of the account it logged in. *)

\* `const { now = new Date() } = opts`
nowOf(options) == elvis(Get(options, "now"), Now)

\* `{ otp, voucherId, voucherAuth, ...serverAuth }`, and deviceDescription
makeRequest(stashNode, options, serverAuth, description) ==
  LET request == serverAuth @@
        [otp |-> getStashOtp(stashNode, options),
         voucherId |-> Get(stashNode, "voucherId"),
         voucherAuth |-> Get(stashNode, "voucherAuth")]
  IN IF description # Undef
     THEN With(request, "deviceDescription", description) ELSE request

\* (mutant) one of voucherId and voucherAuth is enough
isVoucherErrorLoose(e, stashNode) ==
  /\ e.name = "OtpError"
  /\ Get(e, "loginId") # Undef
  /\ \/ stashNode.loginId = ""
     \/ Get(e, "voucherId") # Undef
     \/ Get(e, "voucherAuth") # Undef

\* The test of the catch handler of the login request
isVoucherError(e, stashNode) ==
  /\ e.name = "OtpError"
  /\ Get(e, "loginId") # Undef
  /\ \/ stashNode.loginId = ""
     \/ (Get(e, "voucherId") # Undef /\ Get(e, "voucherAuth") # Undef)

\* The assignments of the catch handler
captureVoucher(h, tree, node, e, now) ==
  SetField(
    SetField(
      SetField(
        SetField(h, node, "loginId", e.loginId),
        node, "voucherId", Get(e, "voucherId")),
      node, "voucherAuth", Get(e, "voucherAuth")),
    tree, "lastLogin", now)

ServerAuths ==
  { [userId |-> "u:userId", passwordAuth |-> "u:passwordAuth"],
    [loginId |-> "u:loginId", loginAuth |-> "u:loginAuth", otp |-> "u:otp"] }

ServerErrors ==
  { [name |-> n] @@ loginId @@ voucherId @@ voucherAuth :
      n \in {"OtpError", "PasswordError"},
      loginId \in { <<>>, [loginId |-> "r:L"], [loginId |-> MalformedLoginId],
                    [loginId |-> ShortLoginId] },
      voucherId \in { <<>>, [voucherId |-> "r:voucherId"] },
      voucherAuth \in { <<>>, [voucherAuth |-> "r:voucherAuth"] } }
    \cup { [name |-> "NetworkError"] }

\* The stash trees a login starts from: a user that was never seen, a stored
\* root, a stored root without username, a stored root with a child app.
NewStash == [username |-> "edge", appId |-> "", loginId |-> ""]
Nameless == [appId |-> "", loginId |-> "s:L", loginAuthBox |-> Box(KeyAt(""), "auth")]
NoDefect == [kind |-> "none", at |-> ""]
LoginStashTrees ==
  { NewStash, Nameless }
    \cup { StashTreeOf(shape, [i \in 1..Len(shape) |-> "a"], flavor, NoDefect) :
             shape \in {<<>>, <<FALSE>>}, flavor \in {"bare", "full"} }

\* The replies of the server: well-formed trees, trees with a defect, a tree
\* without credentials, and a reply without loginId.
LoginReplies ==
  { ReplyTreeOf(app, shape, extras, d) :
      app \in {"", "a"}, shape \in {<<>>, <<FALSE>>}, extras \in BOOLEAN,
      d \in {NoDefect, [kind |-> "noParentBox", at |-> "1"],
             [kind |-> "badBoxes", at |-> ""]} }
    \cup { [appId |-> "", loginId |-> "r:L"], [appId |-> ""] }

LoginOptions ==
  { <<>>, [now |-> "t1"], [otp |-> Join(OtpChars(6, "digits"))],
    [otpKey |-> "o:otpKey"] }

\* The files of the disklet when the stash tree was loaded from it.
StoredFiles(tree) ==
  IF tree.loginId = "" THEN <<>>
  ELSE ("logins/" \o base58(tree.loginId) \o ".json") :> stringify(tree)

InitLogin ==
  /\ \E t \in LoginStashTrees :
       /\ heap = Load(<<>>, t).heap
       /\ disk = StoredFiles(t)
  /\ stashTree = 1
  /\ loginStash \in TreeIds(heap, 1)
  /\ loginTree = 0
  /\ loginKey = Undef
  /\ reply = NoReply
  /\ error = NoServerError
  /\ opts \in LoginOptions
  /\ deviceDescription \in {Undef, "phone"}
  /\ appId = ""
  /\ pc = "ready"
  /\ ret = [err |-> NoError, out |-> 0]
  /\ ret0 = [err |-> NoError, out |-> 0]
  /\ pending = <<>>
  /\ log = <<>>
  /\ calls = <<>>

\* serverLogin up to `await loginFetch(...)`
ServerLogin ==
  /\ pc = "ready"
  /\ \E serverAuth \in ServerAuths :
       log' = Append(log, FetchCall("POST", "/v2/login",
                makeRequest(heap[loginStash], opts, serverAuth, deviceDescription)))
  /\ pc' = "fetching"
  /\ UNCHANGED <<heap, args, appId, ret, ret0, disk, pending, calls>>

\* The request is rejected: the catch handler runs and rethrows.
FetchRejects ==
  /\ pc = "fetching"
  /\ \E e \in ServerErrors :
       /\ error' = e
       /\ ret' = [err |-> e.name, out |-> 0]
       /\ IF isVoucherError(e, heap[loginStash])
          THEN LET h == captureVoucher(heap, stashTree, loginStash, e, nowOf(opts))
                   save == saveStashStart(h, stashTree)
               IN /\ heap' = h
                  /\ log' = Append(log, SaveCall(h, stashTree))
                  /\ pending' = IF save.err = NoError
                                THEN Append(pending, With(save, "awaited", FALSE))
                                ELSE pending
          ELSE UNCHANGED <<heap, log, pending>>
  /\ ret0' = ret
  /\ pc' = "failed"
  /\ UNCHANGED <<stashTree, loginStash, loginTree, loginKey, reply, opts,
                 deviceDescription, appId, disk, calls>>

\* The request is answered: asLoginReply cleans the reply or throws.
FetchResolves ==
  /\ pc = "fetching"
  /\ \E raw \in LoginReplies :
       IF isLoginReply(raw)
       THEN /\ reply' = asLoginReply(raw)
            /\ pc' = "decrypting"
            /\ UNCHANGED <<ret, ret0>>
       ELSE /\ ret' = [err |-> "TypeError", out |-> 0]
            /\ ret0' = ret
            /\ pc' = "failed"
            /\ UNCHANGED reply
  /\ UNCHANGED <<heap, stashTree, loginStash, loginTree, loginKey, error, opts,
                 deviceDescription, appId, io>>

\* `await decrypt(loginReply)` throws.
DecryptFails ==
  /\ pc = "decrypting"
  /\ ret' = [err |-> "PasswordError", out |-> 0]
  /\ ret0' = ret
  /\ pc' = "failed"
  /\ UNCHANGED <<heap, args, appId, io>>

\* `await decrypt(loginReply)` yields a key: reconcile, stamp, start the save.
Decrypt ==
  /\ pc = "decrypting"
  /\ \E key \in {KeyAt(""), WrongKey} :
       LET r == applyLoginReply(heap, stashTree, key, reply)
           h == SetField(r.heap, r.out, "lastLogin", nowOf(opts))
           save == saveStashStart(h, r.out)
       IN /\ loginKey' = key
          /\ IF r.err # NoError
             THEN /\ heap' = r.heap
                  /\ ret' = [err |-> r.err, out |-> 0]
                  /\ pc' = "failed"
                  /\ UNCHANGED <<stashTree, log, pending>>
             ELSE /\ heap' = h
                  /\ stashTree' = r.out
                  /\ log' = Append(log, SaveCall(h, r.out))
                  /\ IF save.err # NoError
                     THEN /\ ret' = [err |-> save.err, out |-> 0]
                          /\ pc' = "failed"
                          /\ UNCHANGED pending
                     ELSE /\ pending' = Append(pending, With(save, "awaited", TRUE))
                          /\ pc' = "saving"
                          /\ UNCHANGED ret
  /\ ret0' = ret
  /\ UNCHANGED <<loginStash, loginTree, reply, error, opts, deviceDescription,
                 appId, disk, calls>>

\* A write of the disklet finishes: saveStash dispatches, and the login that
\* awaits it builds the login tree.
WriteCompletes ==
  \E i \in 1..Len(pending) :
    /\ disk' = Written(disk, [path |-> pending[i].path, text |-> pending[i].text])
    /\ pending' = Remove(pending, i)
    /\ log' = Append(log, Dispatch("LOGIN_STASH_SAVED", pending[i].payload))
    /\ IF pending[i].awaited /\ pc = "syncSaving"
       THEN /\ ret' = [err |-> NoError, out |-> loginTree]
            /\ ret0' = ret
            /\ pc' = "synced"
            /\ UNCHANGED heap
       ELSE IF pending[i].awaited
       THEN LET r == makeLoginTree(heap, stashTree, loginKey, heap[loginStash].appId)
            IN /\ heap' = r.heap
               /\ ret' = [err |-> r.err, out |-> r.out]
               /\ ret0' = ret
               /\ pc' = IF r.err = NoError THEN "done" ELSE "failed"
       ELSE UNCHANGED <<heap, ret, ret0, pc>>
    /\ UNCHANGED <<args, appId, calls>>

\* A write of the disklet fails: saveStash rejects.
WriteFails ==
  \E i \in 1..Len(pending) :
    /\ pending' = Remove(pending, i)
    /\ IF pending[i].awaited
       THEN /\ ret' = [err |-> "DiskError", out |-> 0]
            /\ ret0' = ret
            /\ pc' = IF pc = "syncSaving" THEN "syncFailed" ELSE "failed"
       ELSE UNCHANGED <<ret, ret0, pc>>
    /\ UNCHANGED <<heap, args, appId, disk, log, calls>>

\* The login of the account: the node of the login tree that serverLogin
\* has returned for the app of the stash that was logged into.
LoginOf(h, tree) == searchTree(h, tree, "appId", h[loginStash].appId)

\* syncLogin of the account that serverLogin has logged in, up to its
\* request: the stash is the one in the store, the saved one.
SyncLogin ==
  /\ pc = "done"
  /\ LET r == makeAuthJson(heap, LoginOf(heap, ret.out))
     IN IF Get(heap[ret.out], "username") \in {Undef, ""}
        THEN /\ ret' = [err |-> "MissingUsername", out |-> 0]
             /\ pc' = "syncFailed"
             /\ UNCHANGED <<heap, log, loginTree>>
        ELSE /\ heap' = r.heap
             /\ log' = Append(log, FetchCall("POST", "/v2/login", r.heap[r.out]))
             /\ loginTree' = ret.out
             /\ pc' = "syncing"
             /\ UNCHANGED ret
  /\ ret0' = ret
  /\ UNCHANGED <<stashTree, loginStash, loginKey, reply, error, opts,
                 deviceDescription, appId, disk, pending, calls>>

\* The request of syncLogin is rejected.
SyncRejects ==
  /\ pc = "syncing"
  /\ ret' = [err |-> "NetworkError", out |-> 0]
  /\ ret0' = ret
  /\ pc' = "syncFailed"
  /\ UNCHANGED <<heap, args, appId, io>>

\* The request of syncLogin is answered: the stash is reconciled with the
\* reply as it came, the login tree is built, and the save is started.
SyncResolves ==
  /\ pc = "syncing"
  /\ \E raw \in LoginReplies :
       LET login == LoginOf(heap, loginTree)
           r == applyLoginReply(heap, stashTree, heap[login].loginKey, raw)
           t == makeLoginTree(r.heap, r.out, heap[login].loginKey, heap[login].appId)
           save == saveStashStart(t.heap, r.out)
           failed == IF r.err # NoError THEN r.err
                     ELSE IF t.err # NoError THEN t.err
                     ELSE save.err
       IN /\ reply' = raw
          /\ IF r.err # NoError
             THEN /\ heap' = r.heap
                  /\ UNCHANGED <<log, pending>>
             ELSE IF t.err # NoError
             THEN /\ heap' = t.heap
                  /\ UNCHANGED <<log, pending>>
             ELSE /\ heap' = t.heap
                  /\ log' = Append(log, SaveCall(t.heap, r.out))
                  /\ pending' = IF save.err = NoError
                                THEN Append(pending, With(save, "awaited", TRUE))
                                ELSE pending
          /\ IF failed # NoError
             THEN /\ ret' = [err |-> failed, out |-> 0]
                  /\ pc' = "syncFailed"
                  /\ UNCHANGED <<stashTree, loginTree>>
             ELSE /\ stashTree' = r.out
                  /\ loginTree' = t.out
                  /\ pc' = "syncSaving"
                  /\ UNCHANGED ret
  /\ ret0' = ret
  /\ UNCHANGED <<loginStash, loginKey, error, opts, deviceDescription, appId,
                 disk, calls>>

NextLogin ==
  \/ ServerLogin
  \/ FetchRejects
  \/ FetchResolves
  \/ DecryptFails
  \/ Decrypt
  \/ WriteCompletes
  \/ WriteFails
  \/ SyncLogin
  \/ SyncRejects
  \/ SyncResolves

SpecLogin == InitLogin /\ [][NextLogin]_vars

-----------------------------------------------------------------------------
(* Claims on the failure path of serverLogin. *)

\* C10: when the login request fails, the stash is modified (loginId,
\* voucherId and voucherAuth taken from the error, lastLogin of the tree set
\* to now, one saveStash call) if and only if the error is an OtpError with a
\* loginId and the stash had no loginId or the error has both voucherId and
\* voucherAuth; the caller gets the server's error in every case, and a save
\* that fails, at once or later, does not change what the caller got.
C10_VoucherCapturedIffOtpError ==
  [][ /\ (pc = "fetching" /\ error' # error) =>
           LET e == error'
               qualifies ==
                 /\ e.name = "OtpError"
                 /\ "loginId" \in DOMAIN e
                 /\ \/ heap[loginStash].loginId = ""
                    \/ {"voucherId", "voucherAuth"} \subseteq DOMAIN e
           IN /\ qualifies =>
                   /\ heap'[loginStash].loginId = e.loginId
                   /\ heap'[loginStash].voucherId = Get(e, "voucherId")
                   /\ heap'[loginStash].voucherAuth = Get(e, "voucherAuth")
                   /\ heap'[stashTree].lastLogin = nowOf(opts)
                   /\ Len(Calls(log', "saveStash")) = Len(Calls(log, "saveStash")) + 1
                   /\ log'[Len(log')].stashTree = Tree(heap', stashTree)
              /\ ~qualifies => /\ heap' = heap
                               /\ UNCHANGED io
              /\ pc' = "failed"
              /\ ret'.err = e.name
      /\ (pc = "failed" /\ error # NoServerError) =>
           (pc' = "failed" /\ ret' = ret /\ error' = error)
    ]_vars

\* An OtpError with a loginId and a voucher arrived, the stash took the
\* voucher, the save was called and failed, and the caller has the OtpError.
C10_Witness ==
  /\ pc = "failed"
  /\ error.name = "OtpError"
  /\ ret.err = "OtpError"
  /\ Get(error, "loginId") \notin {Undef, "s:L"}
  /\ heap[loginStash].loginId = error.loginId
  /\ Get(heap[loginStash], "voucherId") = "r:voucherId"
  /\ Get(heap[loginStash], "voucherAuth") = "r:voucherAuth"
  /\ Get(heap[stashTree], "lastLogin") = nowOf(opts)
  /\ Len(Calls(log, "saveStash")) = 1
  /\ pending = <<>>
  /\ Calls(log, "dispatch") = <<>>

-----------------------------------------------------------------------------
(* login-stash.ts: loadStashes. *)

StashFields ==
  { "appId", "created", "lastLogin", "loginId", "userId", "username",
    "otpKey", "otpResetDate", "otpTimeout", "voucherId", "voucherAuth",
    "loginAuthBox", "parentBox", "passwordAuthBox", "passwordAuthSnrp",
    "passwordBox", "passwordKeySnrp", "pin2Key", "pin2TextBox",
    "recovery2Key", "children", "keyBoxes", "mnemonicBox", "rootKeyBox",
    "syncKeyBox" }

\* The cleaner accepts the parsed file: appId and loginId are strings
RECURSIVE isLoginStash(_)
isLoginStash(raw) ==
  /\ Get(raw, "appId") # Undef
  /\ Get(raw, "loginId") # Undef
  /\ "children" \in DOMAIN raw =>
       \A i \in 1..Len(raw.children) : isLoginStash(raw.children[i])

\* The cleaner's result: the known properties, children cleaned
RECURSIVE asLoginStash(_)
asLoginStash(raw) ==
  [ f \in DOMAIN raw \cap StashFields |->
      IF f = "children"
      THEN [i \in 1..Len(raw.children) |-> asLoginStash(raw.children[i])]
      ELSE raw[f] ]

\* The stashes of the files under logins/ that parse and pass the cleaner
loadStashes(files) ==
  { asLoginStash(files[path]) : path \in { q \in DOMAIN files : isLoginStash(files[q]) } }

-----------------------------------------------------------------------------
(* Claims on what serverLogin leaves on disk. *)

\* C11: when serverLogin rejects a first-time login (the stash has loginId '')
\* with an OtpError that carries loginId, voucherId and voucherAuth, then at
\* the moment the caller has the error, loading the stashes from disk yields
\* a stash of that user with the captured loginId, voucherId, voucherAuth
\* and lastLogin = now.
C11_VoucherOnDiskAtRethrow ==
  [][ ( /\ pc = "fetching"
        /\ error' # error
        /\ heap[loginStash].loginId = ""
        /\ error'.name = "OtpError"
        /\ {"loginId", "voucherId", "voucherAuth"} \subseteq DOMAIN error' )
      => \E st \in loadStashes(disk') :
           /\ Get(st, "username") = Get(heap[stashTree], "username")
           /\ st.loginId = error'.loginId
           /\ Get(st, "voucherId") = error'.voucherId
           /\ Get(st, "voucherAuth") = error'.voucherAuth
           /\ Get(st, "lastLogin") = nowOf(opts)
    ]_vars

\* The step is the rejection of the login request by an OtpError with a
\* loginId, for a stash without loginId or with voucherId and voucherAuth.
VoucherRejection ==
  /\ pc = "fetching"
  /\ error' # error
  /\ error'.name = "OtpError"
  /\ "loginId" \in DOMAIN error'
  /\ \/ heap[loginStash].loginId = ""
     \/ {"voucherId", "voucherAuth"} \subseteq DOMAIN error'

\* C12: whenever serverLogin fails with another error than the qualifying
\* OtpError (reply validation, decrypt, ServerLostChildren, key integrity,
\* MissingAuth of makeLoginTree, ...), no stash file was written and no
\* LOGIN_STASH_SAVED was dispatched during the call, and no write is left
\* pending.
C12_OtherFailuresWriteNothing ==
  [][ (pc # "failed" /\ pc' = "failed" /\ ~VoucherRejection)
      => /\ disk' = disk
         /\ Calls(log', "dispatch") = <<>>
         /\ pending' = <<>>
    ]_vars

-----------------------------------------------------------------------------
(* login.ts: applyKit and applyKits.  `stashTree` is the stash of the user *)
(* in the redux state, which getStash reads and which the reducer replaces *)
(* by the payload of LOGIN_STASH_SAVED; `loginTree` is the login tree of   *)
(* the account.  Each call in `calls` has its own position and locals.     *)

\* The longest list of kits handed to applyKits.
MaxKits == 2

\* The child that a kit adds: its stash node and its login node.
KitChildStash ==
  [appId |-> "k", loginId |-> "k:L", loginAuthBox |-> Box("Kk", "auth"),
   parentBox |-> Box(KeyAt(""), "Kk")]
KitChildLogin ==
  [appId |-> "k", loginId |-> "k:L", loginKey |-> "Kk", loginAuth |-> "auth",
   userId |-> Undef, children |-> <<>>, keyInfos |-> <<>>]

\* The kits: enable OTP, disable OTP, add wallet keys, add a child login.
OtpOnKit(target) ==
  [loginId |-> target, serverPath |-> "/v2/login/otp", server |-> "k:otp",
   stash |-> [otpKey |-> "k:otpKey", otpResetDate |-> Undef, otpTimeout |-> "k:otpTimeout"],
   login |-> [otpKey |-> "k:otpKey", otpResetDate |-> Undef, otpTimeout |-> "k:otpTimeout"]]
OtpOffKit(target) ==
  [loginId |-> target, serverMethod |-> "DELETE", serverPath |-> "/v2/login/otp",
   stash |-> [otpKey |-> Undef, otpResetDate |-> Undef, otpTimeout |-> Undef],
   login |-> [otpKey |-> Undef, otpResetDate |-> Undef, otpTimeout |-> Undef]]
KeysKit(target) ==
  [loginId |-> target, serverPath |-> "/v2/login/keys", server |-> "k:keys",
   stash |-> [keyBoxes |-> <<Box(KeyAt(""), "wallet:k")>>],
   login |-> [keyInfos |-> <<"wallet:s", "wallet:k">>]]
ChildKit(target, childStash, childLogin) ==
  [loginId |-> target, serverPath |-> "/v2/login/create", server |-> "k:create",
   stash |-> [children |-> <<childStash>>],
   login |-> [children |-> <<childLogin>>]]

RootLoginId == "s:L"
KitTargets == {RootLoginId, "s:L1", "s:none"}

AllKits(childStash, childLogin) ==
  UNION { { OtpOnKit(t), OtpOffKit(t), KeysKit(t), ChildKit(t, childStash, childLogin) } :
          t \in KitTargets }

\* The kits of the lists of applyKits and of the overlapping calls.
ListKits ==
  { OtpOnKit(RootLoginId), KeysKit(RootLoginId), KeysKit("s:L1"), OtpOffKit("s:none") }
PairKits == { OtpOnKit(RootLoginId), KeysKit(RootLoginId) }

NewCall(fn, kits, tree) ==
  [fn |-> fn, kits |-> kits, loginTree |-> tree, stashTree |-> 0, pc |-> "ready",
   reply |-> Undef, newLoginTree |-> 0, err |-> NoError, out |-> 0]

KitStashTrees ==
  { Nameless }
    \cup { StashTreeOf(shape, [i \in 1..Len(shape) |-> "a"], flavor, NoDefect) :
             shape \in {<<>>, <<FALSE>>}, flavor \in {"bare", "full"} }
    \cup { StashTreeOf(<<FALSE, FALSE>>, <<"a", "b">>, "bare", NoDefect) }

\* One applyKit, one applyKits, or two applyKit calls of the same account.
Scenarios(tree, childStash, childLogin) ==
  { <<NewCall("applyKit", <<k>>, tree)>> : k \in AllKits(childStash, childLogin) }
    \cup { <<NewCall("applyKits", ks, tree)>> :
             ks \in UNION { [1..n -> ListKits] : n \in 0..MaxKits } }
    \cup { <<NewCall("applyKit", <<k1>>, tree), NewCall("applyKit", <<k2>>, tree)>> :
             k1 \in PairKits, k2 \in PairKits }

InitKit ==
  /\ \E t \in KitStashTrees :
       LET loaded == Load(<<>>, t)
           built == makeLoginTree(loaded.heap, 1, KeyAt(""), "")
           h == Alloc(Alloc(built.heap, KitChildStash), KitChildLogin)
       IN /\ heap = h
          /\ loginTree = built.out
          /\ disk = StoredFiles(t)
          /\ calls \in Scenarios(built.out, Len(h) - 1, Len(h))
  /\ stashTree = 1
  /\ loginStash = 1
  /\ loginKey = KeyAt("")
  /\ reply = NoReply
  /\ error = NoServerError
  /\ opts = NoOpts
  /\ deviceDescription = Undef
  /\ appId = ""
  /\ pc = "ready"
  /\ ret = [err |-> NoError, out |-> 0]
  /\ ret0 = [err |-> NoError, out |-> 0]
  /\ pending = <<>>
  /\ log = <<>>

kitFrame ==
  <<loginStash, loginTree, loginKey, reply, error, opts, deviceDescription,
    appId, pc, ret, ret0>>

Failed(call, name) == [call EXCEPT !.pc = "failed", !.err = name]

\* applyKits with no kit left resolves; otherwise applyKit runs up to its
\* server request: find the login, read the stash, build the request.
ApplyKit(i) ==
  /\ calls[i].pc = "ready"
  /\ IF calls[i].fn = "applyKits" /\ calls[i].kits = <<>>
     THEN /\ calls' = [calls EXCEPT ![i].pc = "done"]
          /\ UNCHANGED <<heap, log>>
     ELSE LET kit == Head(calls[i].kits)
              login == searchTree(heap, calls[i].loginTree, "loginId", kit.loginId)
              r == makeAuthJson(heap, login)
              h == SetField(r.heap, r.out, "data", Get(kit, "server"))
          IN IF login = 0
             THEN /\ calls' = [calls EXCEPT ![i] = Failed(@, "MissingLogin")]
                  /\ UNCHANGED <<heap, log>>
             ELSE IF Get(heap[calls[i].loginTree], "username") \in {Undef, ""}
             THEN /\ calls' = [calls EXCEPT ![i] = Failed(@, "MissingUsername")]
                  /\ UNCHANGED <<heap, log>>
             ELSE IF r.err # NoError
             THEN /\ calls' = [calls EXCEPT ![i] = Failed(@, r.err)]
                  /\ UNCHANGED <<heap, log>>
             ELSE /\ heap' = h
                  /\ log' = Append(log,
                       FetchCall(elvis(Get(kit, "serverMethod"), "POST"),
                                 kit.serverPath, h[r.out]))
                  /\ calls' = [calls EXCEPT ![i].pc = "fetching",
                                            ![i].stashTree = stashTree]
  /\ UNCHANGED <<stashTree, kitFrame, disk, pending>>

\* (mutant) the save is started whatever the server answered
KitFetchRejectsAndSaves(i) ==
  /\ calls[i].pc = "fetching"
  /\ LET save == saveStashStart(heap, calls[i].stashTree)
     IN /\ save.err = NoError
        /\ log' = Append(log, SaveCall(heap, calls[i].stashTree))
        /\ pending' = Append(pending, With(save, "call", i))
        /\ calls' = [calls EXCEPT ![i].pc = "saving"]
  /\ UNCHANGED <<heap, stashTree, kitFrame, disk>>

\* loginFetch rejects: applyKit rejects with the same error.
KitFetchRejects(i) ==
  /\ calls[i].pc = "fetching"
  /\ \E name \in {"NetworkError", "OtpError"} :
       calls' = [calls EXCEPT ![i] = Failed(@, name)]
  /\ UNCHANGED <<heap, stashTree, kitFrame, disk, pending, log>>

\* (mutant) the stash is read when the server has answered
KitFetchResolvesFreshStash(i) ==
  /\ calls[i].pc = "fetching"
  /\ LET kit == Head(calls[i].kits)
         newLogin == updateTree(heap, calls[i].loginTree, "applyKit", [kit |-> kit])
         newStash == updateTree(newLogin.heap, stashTree, "applyKitStash",
                                [kit |-> kit])
         save == saveStashStart(newStash.heap, newStash.out)
     IN /\ heap' = newStash.heap
        /\ log' = Append(log, SaveCall(newStash.heap, newStash.out))
        /\ IF save.err # NoError
           THEN /\ calls' = [calls EXCEPT
                     ![i] = [Failed(@, save.err) EXCEPT
                               !.reply = "r:reply", !.newLoginTree = newLogin.out]]
                /\ UNCHANGED pending
           ELSE /\ calls' = [calls EXCEPT ![i].pc = "saving",
                                          ![i].reply = "r:reply",
                                          ![i].newLoginTree = newLogin.out]
                /\ pending' = Append(pending, With(save, "call", i))
  /\ UNCHANGED <<stashTree, kitFrame, disk>>

\* loginFetch resolves: both trees are updated and the save is started.
KitFetchResolves(i) ==
  /\ calls[i].pc = "fetching"
  /\ LET kit == Head(calls[i].kits)
         newLogin == updateTree(heap, calls[i].loginTree, "applyKit", [kit |-> kit])
         newStash == updateTree(newLogin.heap, calls[i].stashTree, "applyKitStash",
                                [kit |-> kit])
         save == saveStashStart(newStash.heap, newStash.out)
     IN /\ heap' = newStash.heap
        /\ log' = Append(log, SaveCall(newStash.heap, newStash.out))
        /\ IF save.err # NoError
           THEN /\ calls' = [calls EXCEPT
                     ![i] = [Failed(@, save.err) EXCEPT
                               !.reply = "r:reply", !.newLoginTree = newLogin.out]]
                /\ UNCHANGED pending
           ELSE /\ calls' = [calls EXCEPT ![i].pc = "saving",
                                          ![i].reply = "r:reply",
                                          ![i].newLoginTree = newLogin.out]
                /\ pending' = Append(pending, With(save, "call", i))
  /\ UNCHANGED <<stashTree, kitFrame, disk>>

\* (mutant) applyKits goes on with the login tree it was called with
KitWriteCompletesSameTree ==
  \E j \in 1..Len(pending) :
    LET i == pending[j].call
    IN /\ disk' = Written(disk, [path |-> pending[j].path, text |-> pending[j].text])
       /\ pending' = Remove(pending, j)
       /\ log' = Append(log, Dispatch("LOGIN_STASH_SAVED", pending[j].payload))
       /\ stashTree' = pending[j].payload
       /\ calls' = [calls EXCEPT ![i] =
            IF @.fn = "applyKit"
            THEN [@ EXCEPT !.pc = "done", !.out = calls[i].newLoginTree]
            ELSE [@ EXCEPT !.pc = "ready", !.kits = Tail(@),
                           !.reply = Undef, !.newLoginTree = 0]]
       /\ UNCHANGED <<heap, kitFrame>>

\* The write of a save finishes: saveStash dispatches LOGIN_STASH_SAVED, the
\* reducer stores the payload, applyKit resolves with the new login tree, and
\* applyKits goes on with the other kits on that tree (each in an applyKit
\* call of its own, whose locals start afresh).
KitWriteCompletes ==
  \E j \in 1..Len(pending) :
    LET i == pending[j].call
    IN /\ disk' = Written(disk, [path |-> pending[j].path, text |-> pending[j].text])
       /\ pending' = Remove(pending, j)
       /\ log' = Append(log, Dispatch("LOGIN_STASH_SAVED", pending[j].payload))
       /\ stashTree' = pending[j].payload
       /\ calls' = [calls EXCEPT ![i] =
            IF @.fn = "applyKit"
            THEN [@ EXCEPT !.pc = "done", !.out = calls[i].newLoginTree]
            ELSE [@ EXCEPT !.pc = "ready", !.kits = Tail(@),
                           !.loginTree = calls[i].newLoginTree,
                           !.reply = Undef, !.newLoginTree = 0]]
       /\ UNCHANGED <<heap, kitFrame>>

\* The write of a save fails: saveStash rejects, and so does applyKit.
KitWriteFails ==
  \E j \in 1..Len(pending) :
    /\ pending' = Remove(pending, j)
    /\ calls' = [calls EXCEPT ![pending[j].call] = Failed(@, "DiskError")]
    /\ UNCHANGED <<heap, stashTree, kitFrame, disk, log>>

NextKit ==
  \/ \E i \in 1..Len(calls) : ApplyKit(i)
  \/ \E i \in 1..Len(calls) : KitFetchRejects(i)
  \/ \E i \in 1..Len(calls) : KitFetchResolves(i)
  \/ KitWriteCompletes
  \/ KitWriteFails

SpecKit == InitKit /\ [][NextKit]_vars

-----------------------------------------------------------------------------
(* Claims on applyKit and applyKits. *)

CallIds == 1..Len(calls)
SaveCalls(l) == Len(Calls(l, "saveStash"))
FetchCalls(l) == Len(Calls(l, "loginFetch"))

\* C13: within one applyKit the order is server request, update in memory,
\* save: a saveStash call is made only in the step in which the server
\* request of that applyKit succeeded (and after that request was sent); the
\* new login tree is handed over only in the step in which the write of that
\* save completed; and when the server request fails, no object is created,
\* nothing is saved and the call ends without a login tree.
C13_ServerThenMemoryThenDisk ==
  [][ /\ SaveCalls(log') # SaveCalls(log) =>
           \E i \in CallIds :
             /\ calls[i].pc = "fetching"
             /\ calls[i].reply = Undef /\ calls'[i].reply # Undef
             /\ calls'[i].newLoginTree # 0
             /\ FetchCalls(log) >= 1
             /\ SaveCalls(log') = SaveCalls(log) + 1
      /\ \A i \in CallIds :
           (calls'[i].out # calls[i].out \/ calls'[i].loginTree # calls[i].loginTree) =>
             /\ calls[i].pc = "saving"
             /\ \E j \in 1..Len(pending) :
                  /\ pending[j].call = i
                  /\ pending[j].path \in DOMAIN disk'
                  /\ disk'[pending[j].path] = pending[j].text
                  /\ pending[j].text = stringify(Tree(heap, pending[j].payload))
             /\ \A j \in 1..Len(pending') : pending'[j].call # i
             /\ calls[i].newLoginTree \in {calls'[i].out, calls'[i].loginTree}
      /\ \A i \in CallIds :
           (calls[i].pc = "fetching" /\ calls'[i].pc = "failed" /\ calls'[i].reply = Undef) =>
             /\ heap' = heap
             /\ UNCHANGED <<disk, pending, log>>
             /\ calls'[i].out = 0 /\ calls'[i].newLoginTree = 0
      /\ \A i \in CallIds : calls[i].pc \in {"done", "failed"} => calls'[i] = calls[i]
    ]_vars

\* An applyKit sent its request, saved the stash and returned the login tree;
\* the file of the stash is on disk.
C13_Witness ==
  /\ Len(calls) = 1
  /\ calls[1].fn = "applyKit"
  /\ calls[1].pc = "done"
  /\ calls[1].out # 0
  /\ FetchCalls(log) = 1
  /\ SaveCalls(log) = 1
  /\ Calls(log, "dispatch") # <<>>
  /\ \E path \in DOMAIN disk : disk[path] = stringify(Tree(heap, stashTree))

\* The node of a tree that a kit is aimed at, and whether that node carries
\* what the kit brings to a login: the kit's values, children and keys.
TargetOf(tree, kit) == searchTree(heap, tree, "loginId", kit.loginId)
Elements(list) == { list[k] : k \in 1..Len(list) }
ReflectsLogin(node, kit) ==
  /\ node # 0
  /\ \A f \in DOMAIN kit.login \ {"children", "keyInfos"} :
       Get(heap[node], f) = kit.login[f]
  /\ Elements(ListOf(kit.login, "children")) \subseteq Elements(ListOf(heap[node], "children"))
  /\ Elements(ListOf(kit.login, "keyInfos")) \subseteq Elements(ListOf(heap[node], "keyInfos"))

\* C14: when the write of applyKit's save fails after the server accepted the
\* kit, applyKit rejects with the error of the write, and the login tree that
\* the caller holds carries the kit's login delta.
C14_TreeCurrentWhenPersistFails ==
  \A i \in CallIds :
    (calls[i].pc = "failed" /\ calls[i].reply # Undef /\ calls[i].err = "DiskError") =>
      /\ calls[i].out = 0
      /\ ReflectsLogin(TargetOf(calls[i].loginTree, Head(calls[i].kits)),
                       Head(calls[i].kits))

\* The calls that one applyKits makes, kit after kit
KitRound == <<"loginFetch", "saveStash", "dispatch">>

\* C15: applyKits takes its kits one at a time in list order. The calls it
\* makes are request, save, write-completed, request, ...: the request of a
\* kit follows the completed save of the kit before it. The request sent is
\* that of the first kit not yet applied, built on the login tree that the
\* kit before it returned; a completed kit leaves the list and hands its tree
\* to the rest; and once a kit has failed nothing is sent any more.
C15_KitsOneAfterAnother ==
  [][ \A i \in CallIds :
        calls[i].fn = "applyKits" =>
          /\ \A k \in 1..Len(log') : log'[k].call = KitRound[((k - 1) % 3) + 1]
          /\ (calls[i].pc = "ready" /\ calls'[i].pc = "fetching") =>
               LET kit == Head(calls[i].kits)
                   sent == log'[Len(log')]
               IN /\ Len(log') = Len(log) + 1
                  /\ \A j \in 1..Len(pending) : pending[j].call # i
                  /\ Len(Calls(log, "dispatch")) = FetchCalls(log)
                  /\ sent.call = "loginFetch"
                  /\ sent.path = kit.serverPath
                  /\ Get(sent.body, "data") = Get(kit, "server")
                  /\ TargetOf(calls[i].loginTree, kit) # 0
                  /\ Get(sent.body, "loginId") =
                       heap[TargetOf(calls[i].loginTree, kit)].loginId
          /\ (calls[i].pc = "fetching" /\ calls'[i].newLoginTree # 0) =>
               LET kit == Head(calls[i].kits)
                   new == updateTree(heap, calls[i].loginTree, "applyKit", [kit |-> kit])
               IN /\ calls'[i].newLoginTree = new.out
                  /\ SubSeq(heap', 1, Len(new.heap)) = new.heap
          /\ (calls[i].pc = "saving" /\ calls'[i].pc = "ready") =>
               /\ calls'[i].kits = Tail(calls[i].kits)
               /\ calls'[i].loginTree = calls[i].newLoginTree
          /\ calls'[i].kits # calls[i].kits =>
               calls[i].pc = "saving" /\ calls'[i].pc = "ready"
          /\ calls[i].pc = "failed" =>
               /\ calls'[i] = calls[i]
               /\ log' = log
    ]_vars

\* applyKits has applied two kits: two requests were sent, and the login tree
\* it ends with carries what both kits bring.
C15_Witness ==
  /\ Len(calls) = 1
  /\ calls[1].fn = "applyKits"
  /\ calls[1].pc = "done"
  /\ FetchCalls(log) = 2
  /\ Calls(log, "loginFetch")[1].path = OtpOnKit(RootLoginId).serverPath
  /\ Calls(log, "loginFetch")[2].path = KeysKit("s:L1").serverPath
  /\ ReflectsLogin(TargetOf(calls[1].loginTree, OtpOnKit(RootLoginId)),
                   OtpOnKit(RootLoginId))
  /\ ReflectsLogin(TargetOf(calls[1].loginTree, KeysKit("s:L1")), KeysKit("s:L1"))

\* The delta of a kit as a value: the children it brings as trees.
DeltaValue(delta) ==
  IF "children" \in DOMAIN delta
  THEN With(delta, "children",
            [k \in 1..Len(delta.children) |-> Tree(heap, delta.children[k])])
  ELSE delta

\* A node merged with a delta as the kit contract words it: the fields of the
\* delta win, children are the old ones followed by the new ones, and so is
\* the list of keys, without repetitions when `dedup`.
Merged(old, delta, listField, dedup) ==
  [ f \in DOMAIN old \cup DOMAIN delta \cup {"children", listField} |->
      IF f = "children"
      THEN ListOf(old, "children") \o ListOf(delta, "children")
      ELSE IF f = listField
      THEN IF dedup
           THEN mergeKeyInfos(ListOf(old, listField) \o ListOf(delta, listField))
           ELSE ListOf(old, listField) \o ListOf(delta, listField)
      ELSE IF f \in DOMAIN delta THEN delta[f]
      ELSE old[f] ]

\* `new` is `old` with the node whose loginId is `target` merged with `delta`
\* (as it is written to a file when `file`) and every other node as it was:
\* with the same properties when `exact`, and else with the same properties
\* but for a `children` array, which it has even if it had none.
RECURSIVE OnlyTargetMerged(_, _, _, _, _, _, _)
OnlyTargetMerged(old, new, target, delta, listField, file, exact) ==
  IF Get(old, "loginId") = target
  THEN new = IF file THEN stringify(Merged(old, delta, listField, FALSE))
             ELSE Merged(old, delta, listField, TRUE)
  ELSE LET was == IF file THEN stringify(old) ELSE old
       IN /\ DOMAIN new = IF exact THEN DOMAIN was ELSE DOMAIN was \cup {"children"}
          /\ \A f \in DOMAIN was \ {"children"} : new[f] = was[f]
          /\ "children" \in DOMAIN new =>
               /\ Len(new.children) = Len(ListOf(old, "children"))
               /\ \A k \in 1..Len(new.children) :
                    OnlyTargetMerged(old.children[k], new.children[k], target,
                                     delta, listField, file, exact)

\* The file of a stash tree
FileOf(h, tree) == disk["logins/" \o base58(h[tree].loginId) \o ".json"]

\* What an applyKit that succeeded has sent, returned and written, with the
\* other nodes compared as `exact` says.
KitApplied(call, exact) ==
  LET kit == Head(call.kits)
      sent == Calls(log, "loginFetch")
  IN /\ Len(sent) = 1
     /\ sent[1].method = elvis(Get(kit, "serverMethod"), "POST")
     /\ sent[1].path = kit.serverPath
     /\ Get(sent[1].body, "data") = Get(kit, "server")
     /\ OnlyTargetMerged(Tree(heap, call.loginTree), Tree(heap, call.out),
                         kit.loginId, DeltaValue(kit.login), "keyInfos", FALSE, exact)
     /\ OnlyTargetMerged(Tree(heap, call.stashTree), FileOf(heap, call.stashTree),
                         kit.loginId, DeltaValue(kit.stash), "keyBoxes", TRUE, exact)

OneKitDone == Len(calls) = 1 /\ calls[1].fn = "applyKit" /\ calls[1].pc = "done"

\* C16 (as stated): when an applyKit has succeeded, exactly one request was
\* sent, with the kit's method, path and data; in the login tree it returned
\* the node with the kit's loginId is the old node merged with kit.login (kit
\* fields win, undefined ones too; children old then new; keyInfos merged
\* without repetitions); in the stash file that node is the old stash node
\* merged with kit.stash (children and keyBoxes old then new); and every other
\* node of both trees is unchanged.
C16_KitMergedOthersUnchanged == OneKitDone => KitApplied(calls[1], TRUE)

\* C16 (amended): the same, but a node other than the target keeps its
\* properties and always has a `children` array afterwards: the stash file
\* holds `children: []` for a node that had no children property.
C16_KitMergedOthersKeepFields == OneKitDone => KitApplied(calls[1], FALSE)

\* A kit that adds a child was applied to a child login that has a sibling
\* without a children array.
C16_Witness ==
  /\ OneKitDone
  /\ Head(calls[1].kits).loginId = "s:L1"
  /\ "children" \in DOMAIN Head(calls[1].kits).stash
  /\ Len(ListOf(heap[calls[1].stashTree], "children")) = 2
  /\ \E k \in 1..2 :
       /\ "children" \notin DOMAIN heap[heap[calls[1].stashTree].children[k]]
       /\ heap[heap[calls[1].stashTree].children[k]].loginId # "s:L1"

-----------------------------------------------------------------------------
(* scrypt pixie: timeScrypt behind serialize. Each call of the serialized   *)
(* function is a task of `calls`; the promise of task i is chained on that  *)
(* of task i - 1, the value of lastTask when it was submitted.              *)

MaxTasks == 3

BadHex == "zz"
CanBase16Parse(hex) == hex # BadHex
scrypt(data, salt) == "scrypt:" \o data \o ":" \o salt

ScryptArgs == [data : {"d1", "d2"}, salt_hex : {"5a", BadHex}]

NewTask(arguments) ==
  [args |-> arguments, pc |-> "queued", err |-> NoError, hash |-> Undef]

\* `lastTask`: the promise of the task submitted last, 0 for Promise.resolve()
lastTask == Len(calls)
Settled(tasks, k) ==
  IF k = 0 THEN TRUE ELSE tasks[k].pc \in {"resolved", "rejected"}

\* (mutant) `f.apply(this, args)` without the chain on lastTask
CanStartUnchained(i) == calls[i].pc = "queued"

\* `lastTask.then(onDone, onDone)`: onDone runs once the task before has
\* settled, fulfilled or rejected
CanStart(i) == calls[i].pc = "queued" /\ Settled(calls, i - 1)

InitScrypt ==
  /\ heap = <<>>
  /\ stashTree = 0
  /\ loginKey = KeyAt("")
  /\ reply = NoReply
  /\ IdleCaller
  /\ IdleIo

scryptFrame == <<heap, args, appId, pc, ret, ret0, disk, pending>>

\* The serialized function is called: the task is chained and becomes lastTask.
Serialize ==
  /\ lastTask < MaxTasks
  /\ \E arguments \in ScryptArgs : calls' = Append(calls, NewTask(arguments))
  /\ UNCHANGED <<scryptFrame, log>>

\* onDone runs timeScrypt: it parses the salt (which may throw), logs, and
\* calls io.scrypt.
TimeScrypt(i) ==
  /\ CanStart(i)
  /\ IF CanBase16Parse(calls[i].args.salt_hex)
     THEN /\ calls' = [calls EXCEPT ![i].pc = "running"]
          /\ log' = Append(log, [call |-> "log", text |-> "starting scrypt", task |-> i])
     ELSE /\ calls' = [calls EXCEPT ![i].pc = "rejected", ![i].err = "SyntaxError"]
          /\ UNCHANGED log
  /\ UNCHANGED scryptFrame

\* io.scrypt resolves: the time is logged and the hash delivered.
ScryptResolves(i) ==
  /\ calls[i].pc = "running"
  /\ calls' = [calls EXCEPT
       ![i].pc = "resolved",
       ![i].hash = scrypt(calls[i].args.data, calls[i].args.salt_hex)]
  /\ log' = Append(log, [call |-> "log", text |-> "finished scrypt", task |-> i])
  /\ UNCHANGED scryptFrame

\* io.scrypt rejects.
ScryptRejects(i) ==
  /\ calls[i].pc = "running"
  /\ calls' = [calls EXCEPT ![i].pc = "rejected", ![i].err = "ScryptError"]
  /\ UNCHANGED <<scryptFrame, log>>

NextScrypt ==
  \/ Serialize
  \/ \E i \in 1..Len(calls) : TimeScrypt(i)
  \/ \E i \in 1..Len(calls) : ScryptResolves(i)
  \/ \E i \in 1..Len(calls) : ScryptRejects(i)

SpecScrypt == InitScrypt /\ [][NextScrypt]_vars

-----------------------------------------------------------------------------
(* Claims on the scrypt queue. *)

Running == { i \in 1..Len(calls) : calls[i].pc = "running" }
Started(tasks, i) == tasks[i].pc # "queued"

\* C17: at most one scrypt computation runs at a time; a task starts only
\* when every task submitted before it has settled, so tasks start in the
\* order of their submission; a task whose predecessor has settled, rejected
\* or not, can start; and a task that resolves delivers the hash of its own
\* arguments whatever became of the tasks before it.
C17_OneScryptAtATime ==
  [][ /\ Cardinality(Running) <= 1
      /\ \A i \in 1..Len(calls) :
           /\ (~Started(calls, i) /\ Started(calls', i)) =>
                \A j \in 1..(i - 1) : Settled(calls, j)
           /\ (calls[i].pc = "queued" /\ Settled(calls, i - 1)) => ENABLED TimeScrypt(i)
           /\ calls[i].pc = "resolved" =>
                calls[i].hash = scrypt(calls[i].args.data, calls[i].args.salt_hex)
           /\ calls[i].pc = "running" => CanBase16Parse(calls[i].args.salt_hex)
    ]_vars

\* A task was rejected by io.scrypt, another by its salt, and the task after
\* them ran and resolved.
C17_Witness ==
  /\ Len(calls) = 3
  /\ calls[1].pc = "rejected" /\ calls[1].err = "ScryptError"
  /\ calls[2].pc = "rejected" /\ calls[2].err = "SyntaxError"
  /\ calls[3].pc = "resolved"
  /\ calls[3].hash = scrypt(calls[3].args.data, calls[3].args.salt_hex)

-----------------------------------------------------------------------------
(* login-stash.ts: saveStash, called on enumerated stash trees; the calls   *)
(* of `calls` run one after another or overlap.                              *)

MaxSaves == 2

OtherUser == [appId |-> "", loginId |-> "b:L", username |-> "bob"]

\* Roots that saveStash accepts (a bare one, one with a child, one of another
\* user, one with the empty username) and roots that it refuses.
SaveTrees ==
  { StashTreeOf(<<>>, <<>>, "bare", NoDefect),
    StashTreeOf(<<FALSE>>, <<"a">>, "full", NoDefect),
    OtherUser,
    [appId |-> "", loginId |-> "s:L", username |-> ""],
    [appId |-> "a", loginId |-> "s:L", username |-> "edge"],
    [appId |-> "", username |-> "edge"],
    [appId |-> "", loginId |-> Undef, username |-> "edge"],
    Nameless,
    [appId |-> "", loginId |-> "s:L", username |-> Undef],
    [appId |-> "", loginId |-> MalformedLoginId, username |-> "edge"],
    [appId |-> "", loginId |-> ShortLoginId, username |-> "edge"],
    NewStash }

RECURSIVE LoadTrees(_, _, _, _)
LoadTrees(h, trees, fn, acc) ==
  IF trees = <<>> THEN [heap |-> h, calls |-> acc]
  ELSE LET r == Load(h, Head(trees))
       IN LoadTrees(r.heap, Tail(trees), fn,
                    Append(acc, [fn |-> fn, stashTree |-> r.out, pc |-> "ready",
                                 err |-> NoError]))

InitSave ==
  /\ \E n \in 1..MaxSaves : \E trees \in [1..n -> SaveTrees] :
       /\ heap = LoadTrees(<<>>, trees, "saveStash", <<>>).heap
       /\ calls = LoadTrees(<<>>, trees, "saveStash", <<>>).calls
  /\ disk \in {<<>>, StoredFiles(OtherUser)}
  /\ stashTree = 0
  /\ loginKey = KeyAt("")
  /\ reply = NoReply
  /\ IdleCaller
  /\ pending = <<>>
  /\ log = <<>>

saveFrame == <<heap, args, appId, pc, ret, ret0>>

\* saveStash up to `await io.disklet.setText(...)`
SaveStash(i) ==
  /\ calls[i].pc = "ready"
  /\ LET save == saveStashStart(heap, calls[i].stashTree)
     IN IF save.err # NoError
        THEN /\ calls' = [calls EXCEPT ![i] = Failed(@, save.err)]
             /\ UNCHANGED pending
        ELSE /\ calls' = [calls EXCEPT ![i].pc = "saving"]
             /\ pending' = Append(pending, With(save, "call", i))
  /\ UNCHANGED <<saveFrame, disk, log>>

\* (mutant) the event is dispatched although the write failed
SetTextRejectsDispatching ==
  \E j \in 1..Len(pending) :
    /\ pending' = Remove(pending, j)
    /\ log' = Append(log, Dispatch("LOGIN_STASH_SAVED", pending[j].payload))
    /\ calls' = [calls EXCEPT ![pending[j].call] = Failed(@, "DiskError")]
    /\ UNCHANGED <<saveFrame, disk>>

\* setText resolves: saveStash dispatches LOGIN_STASH_SAVED and resolves.
SetTextResolves ==
  \E j \in 1..Len(pending) :
    /\ disk' = Written(disk, [path |-> pending[j].path, text |-> pending[j].text])
    /\ pending' = Remove(pending, j)
    /\ log' = Append(log, Dispatch("LOGIN_STASH_SAVED", pending[j].payload))
    /\ calls' = [calls EXCEPT ![pending[j].call].pc = "done"]
    /\ UNCHANGED saveFrame

\* setText rejects: saveStash rejects with its error.
SetTextRejects ==
  \E j \in 1..Len(pending) :
    /\ pending' = Remove(pending, j)
    /\ calls' = [calls EXCEPT ![pending[j].call] = Failed(@, "DiskError")]
    /\ UNCHANGED <<saveFrame, disk, log>>

NextSave ==
  \/ \E i \in 1..Len(calls) : SaveStash(i)
  \/ SetTextResolves
  \/ SetTextRejects

SpecSave == InitSave /\ [][NextSave]_vars

-----------------------------------------------------------------------------
(* Claims on saveStash. *)

\* A stash tree that may be saved: root of the account, with a loginId of 32
\* bytes and a username.
Savable(tree) ==
  /\ tree.appId = ""
  /\ NonNull(tree, "loginId")
  /\ LoginIdParses(tree.loginId)
  /\ LoginIdBytes(tree.loginId) = LoginIdLength
  /\ NonNull(tree, "username")

Events(l) == Len(Calls(l, "dispatch"))

\* C18: a saveStash call on a tree that is the root (appId ''), has a loginId
\* that decodes to 32 bytes and has a username starts exactly one write, of
\* the JSON of the tree to logins/<base58(loginId)>.json; on any other tree
\* it fails with an error and starts no write; nothing but the completion of
\* such a write changes the files, and a refused call never emits an event.
C18_SavesOnlyValidRoots ==
  [][ /\ \A i \in CallIds :
           (calls[i].pc = "ready" /\ calls'[i].pc # "ready") =>
             LET tree == heap[calls[i].stashTree]
             IN IF Savable(tree)
                THEN /\ calls'[i].pc = "saving"
                     /\ pending' = Append(pending,
                          [err |-> NoError,
                           path |-> "logins/" \o base58(tree.loginId) \o ".json",
                           text |-> stringify(Tree(heap, calls[i].stashTree)),
                           payload |-> calls[i].stashTree,
                           call |-> i])
                     /\ UNCHANGED <<disk, log>>
                ELSE /\ calls'[i].pc = "failed"
                     /\ calls'[i].err # NoError
                     /\ UNCHANGED <<disk, pending, log>>
      /\ disk' # disk =>
           \E j \in 1..Len(pending) :
             /\ Savable(heap[pending[j].payload])
             /\ disk' = Written(disk, [path |-> pending[j].path, text |-> pending[j].text])
      /\ \A i \in CallIds :
           ~Savable(heap[calls[i].stashTree]) =>
             /\ calls'[i].pc \in {"ready", "failed"}
             /\ \A k \in 1..Len(log') : log'[k].payload # calls[i].stashTree
    ]_vars

\* One call was refused for a loginId of three bytes and wrote nothing, and
\* another wrote the stash of its tree to the file named after its loginId.
C18_Witness ==
  /\ Len(calls) = 2
  /\ calls[1].pc = "failed" /\ calls[1].err = "InvalidLoginId"
  /\ heap[calls[1].stashTree].loginId = ShortLoginId
  /\ calls[2].pc = "done"
  /\ DOMAIN disk = {"logins/" \o base58(heap[calls[2].stashTree].loginId) \o ".json"}
  /\ disk["logins/" \o base58(heap[calls[2].stashTree].loginId) \o ".json"]
       = stringify(Tree(heap, calls[2].stashTree))

\* C19: LOGIN_STASH_SAVED is dispatched only in the step in which the write
\* of the stash completes, with the saved tree as payload and the file
\* holding its JSON; when the write fails saveStash rejects and nothing is
\* dispatched; so there are as many events as completed saves, none as long
\* as a save is still writing.
C19_SavedEventAfterWrite ==
  [][ /\ Events(log) = Cardinality({ i \in CallIds : calls[i].pc = "done" })
      /\ log' # log =>
           \E j \in 1..Len(pending) :
             /\ log' = Append(log, Dispatch("LOGIN_STASH_SAVED", pending[j].payload))
             /\ pending[j].path \in DOMAIN disk'
             /\ disk'[pending[j].path] = stringify(Tree(heap, pending[j].payload))
             /\ calls[pending[j].call].pc = "saving"
             /\ calls'[pending[j].call].pc = "done"
             /\ pending' = Remove(pending, j)
      /\ \A i \in CallIds :
           (calls[i].pc = "saving" /\ calls'[i].pc = "failed") =>
             /\ calls'[i].err = "DiskError"
             /\ UNCHANGED <<disk, log>>
      /\ \A i \in CallIds : calls'[i].pc = "done" => calls[i].pc \in {"saving", "done"}
    ]_vars

\* One save failed in its write and emitted nothing; the other completed and
\* emitted the one event there is.
C19_Witness ==
  /\ Len(calls) = 2
  /\ calls[1].pc = "failed" /\ calls[1].err = "DiskError"
  /\ calls[2].pc = "done"
  /\ Events(log) = 1
  /\ log[1].type = "LOGIN_STASH_SAVED"
  /\ log[1].payload = calls[2].stashTree

-----------------------------------------------------------------------------
(* login-stash.ts: removeStash on a disklet that holds stashes of the user, *)
(* of another user, and a file that is no stash.                             *)

\* login-selectors is outside the sources at hand: fixUsername normalizes a
\* name (case and spaces); a normalized name is left as it is.
fixUsername(username) == IF username = "Edge " THEN "edge" ELSE username

SecondStash == [appId |-> "", loginId |-> "t:L", username |-> "edge"]
JunkFile == "logins/junk.json" :> [notJson |-> "{"]

RemoveFiles ==
  << StoredFiles(StashTreeOf(<<>>, <<>>, "bare", NoDefect)),
     StoredFiles(SecondStash),
     StoredFiles(OtherUser),
     JunkFile >>

RECURSIVE Merge(_, _)
Merge(files, chosen) ==
  IF files = <<>> THEN <<>>
  ELSE IF Len(files) \in chosen THEN files[Len(files)] @@ Merge(SubSeq(files, 1, Len(files) - 1), chosen)
  ELSE Merge(SubSeq(files, 1, Len(files) - 1), chosen)

\* The listings of a folder: its paths in any order
Listings(files) ==
  { l \in [1..Cardinality(DOMAIN files) -> DOMAIN files] :
      \A a, b \in DOMAIN l : a # b => l[a] # l[b] }

Deleted(files, path) == [q \in DOMAIN files \ {path} |-> files[q]]

InitRemove ==
  /\ \E chosen \in SUBSET (1..Len(RemoveFiles)) : disk = Merge(RemoveFiles, chosen)
  /\ \E username \in {"edge", "Edge ", "carol"} :
       calls = << [fn |-> "removeStash", username |-> username, pc |-> "ready",
                   paths |-> <<>>, err |-> NoError] >>
  /\ heap = <<>>
  /\ stashTree = 0
  /\ loginKey = KeyAt("")
  /\ reply = NoReply
  /\ IdleCaller
  /\ pending = <<>>
  /\ log = <<>>

removeFrame == <<heap, args, appId, pc, ret, ret0, pending>>

\* The loop goes to the paths that are left; after the last one removeStash
\* dispatches LOGIN_STASH_DELETED and resolves.
Loop(i, paths) ==
  IF paths = <<>>
  THEN /\ calls' = [calls EXCEPT ![i].pc = "done", ![i].paths = <<>>]
       /\ log' = Append(log, Dispatch("LOGIN_STASH_DELETED",
                                      fixUsername(calls[i].username)))
  ELSE /\ calls' = [calls EXCEPT ![i].pc = "reading", ![i].paths = paths]
       /\ UNCHANGED log

\* removeStash up to `await io.disklet.list('logins')`
RemoveStash(i) ==
  /\ calls[i].pc = "ready"
  /\ calls' = [calls EXCEPT ![i].pc = "listing"]
  /\ UNCHANGED <<removeFrame, disk, log>>

ListResolves(i) ==
  /\ calls[i].pc = "listing"
  /\ \E paths \in Listings(disk) : Loop(i, paths)
  /\ UNCHANGED <<removeFrame, disk>>

\* list rejects: outside the try, removeStash rejects.
ListRejects(i) ==
  /\ calls[i].pc = "listing"
  /\ calls' = [calls EXCEPT ![i] = Failed(@, "DiskError")]
  /\ UNCHANGED <<removeFrame, disk, log>>

\* getText resolves: the file is parsed and cleaned; a stash of the user is
\* deleted, anything else (or a throw of the parser or cleaner) is passed over.
GetTextResolves(i) ==
  /\ calls[i].pc = "reading"
  /\ LET path == Head(calls[i].paths)
     IN IF /\ isLoginStash(disk[path])
           /\ Get(asLoginStash(disk[path]), "username") = fixUsername(calls[i].username)
        THEN /\ calls' = [calls EXCEPT ![i].pc = "deleting"]
             /\ UNCHANGED log
        ELSE Loop(i, Tail(calls[i].paths))
  /\ UNCHANGED <<removeFrame, disk>>

\* getText rejects: caught, next path.
GetTextRejects(i) ==
  /\ calls[i].pc = "reading"
  /\ Loop(i, Tail(calls[i].paths))
  /\ UNCHANGED <<removeFrame, disk>>

DeleteResolves(i) ==
  /\ calls[i].pc = "deleting"
  /\ disk' = Deleted(disk, Head(calls[i].paths))
  /\ Loop(i, Tail(calls[i].paths))
  /\ UNCHANGED removeFrame

\* delete rejects inside the try: caught, next path.
DeleteRejects(i) ==
  /\ calls[i].pc = "deleting"
  /\ Loop(i, Tail(calls[i].paths))
  /\ UNCHANGED <<removeFrame, disk>>

NextRemove ==
  \/ \E i \in 1..Len(calls) : RemoveStash(i)
  \/ \E i \in 1..Len(calls) : ListResolves(i)
  \/ \E i \in 1..Len(calls) : ListRejects(i)
  \/ \E i \in 1..Len(calls) : GetTextResolves(i)
  \/ \E i \in 1..Len(calls) : GetTextRejects(i)
  \/ \E i \in 1..Len(calls) : DeleteResolves(i)
  \/ \E i \in 1..Len(calls) : DeleteRejects(i)

SpecRemove == InitRemove /\ [][NextRemove]_vars

-----------------------------------------------------------------------------
(* Claims on removeStash. *)

\* C20: when the deletion of a file that holds a stash of the user fails
\* (the call was deleting and the files stay as they were), removeStash
\* rejects with the error of the disklet and LOGIN_STASH_DELETED is not
\* emitted, then or later.
C20_DeletedEventOnlyAfterDeletes ==
  [][ \A i \in CallIds :
        /\ (calls[i].pc = "deleting" /\ calls'[i] # calls[i] /\ disk' = disk) =>
             /\ calls'[i].pc = "failed"
             /\ calls'[i].err = "DiskError"
             /\ Events(log') = 0
        /\ calls[i].pc = "failed" => (calls'[i] = calls[i] /\ Events(log') = 0)
    ]_vars

\* The file holds a valid stash of the user whose name was given
StashOfUser(file, username) ==
  /\ isLoginStash(file)
  /\ Get(asLoginStash(file), "username") = fixUsername(username)

\* C21: when removeStash has completed, no file under logins/ holds a valid
\* stash whose username is the normalized name given; and at every step a
\* file that holds something else (a stash of another user, or no stash) stays
\* where it is with the content it had.
C21_NoStashOfUserLeft ==
  [][ \A i \in CallIds :
        /\ calls'[i].pc = "done" =>
             \A path \in DOMAIN disk' : ~StashOfUser(disk'[path], calls[i].username)
        /\ \A path \in DOMAIN disk :
             ~StashOfUser(disk[path], calls[i].username) =>
               (path \in DOMAIN disk' /\ disk'[path] = disk[path])
    ]_vars

-----------------------------------------------------------------------------
(* create.js: createLogin for a root login.                                  *)

\* login-selectors, password, pin2 and keys are outside the sources at hand:
\* hashUsername is a 32-byte digest of the normalized name, and the three
\* optional kits bring the properties that their login method stores.
hashUsername(username) == "h:" \o fixUsername(username)

PasswordKit ==
  [server |-> [passwordAuth |-> "pwauth"],
   stash |-> [passwordAuthBox |-> Box("Kn", "pwauth"), passwordBox |-> Box("Kp", "Kn")],
   login |-> [passwordAuth |-> "pwauth"]]
Pin2Kit ==
  [server |-> [pin2Id |-> "pin2id"],
   stash |-> [pin2Key |-> Base64Stringify("pin2"), pin2TextBox |-> Box("Kn", "1234")],
   login |-> [pin2Key |-> "pin2"]]
KeysKitOfCreate ==
  [server |-> [keyBoxes |-> <<Box("Kn", "wallet:n")>>],
   stash |-> [keyBoxes |-> <<Box("Kn", "wallet:n")>>],
   login |-> [keyInfos |-> <<"wallet:n">>]]
NoKit == [server |-> <<>>, stash |-> <<>>, login |-> <<>>]

KitIf(present, kit) == IF present THEN kit ELSE NoKit

\* makeCreateKit for a login without parent, then the three assignments of
\* createLogin: later spreads win over earlier properties.
makeCreateKit(app, username, createOpts) ==
  LET passwordKit == KitIf(createOpts.password, PasswordKit)
      pin2Kit == KitIf(createOpts.pin, Pin2Kit)
      keysKit == KitIf(createOpts.keyInfo, KeysKitOfCreate)
      loginId == hashUsername(username)
  IN [loginId |-> loginId,
      serverPath |-> "/v2/login/create",
      server |-> keysKit.server @@ pin2Kit.server @@ passwordKit.server @@
                 [appId |-> app, loginAuth |-> "auth",
                  loginAuthBox |-> Box("Kn", "auth"), loginId |-> loginId,
                  parentBox |-> Undef],
      stash |-> keysKit.stash @@ pin2Kit.stash @@ passwordKit.stash @@
                [appId |-> app, loginAuthBox |-> Box("Kn", "auth"),
                 loginId |-> loginId, parentBox |-> Undef],
      login |-> keysKit.login @@ pin2Kit.login @@ passwordKit.login @@
                [appId |-> app, loginAuth |-> "auth", loginId |-> loginId,
                 loginKey |-> "Kn", keyInfos |-> <<>>]]

CreateOpts == [password : BOOLEAN, pin : BOOLEAN, keyInfo : BOOLEAN]

NewCreate(username, accountOpts, createOpts) ==
  [fn |-> "createLogin", username |-> username, accountOpts |-> accountOpts,
   opts |-> createOpts, pc |-> "ready", stash |-> 0, login |-> 0,
   reply |-> Undef, err |-> NoError, out |-> 0]

InitCreate ==
  /\ \E username \in {"edge", "Edge ", "bob"}, accountOpts \in {NoOpts, [now |-> "t1"]},
        createOpts \in CreateOpts :
       calls = <<NewCreate(username, accountOpts, createOpts)>>
  /\ disk \in {<<>>,
               StoredFiles([appId |-> "", loginId |-> hashUsername("edge"),
                            username |-> "edge", lastLogin |-> "s:lastLogin"])}
  /\ heap = <<>>
  /\ stashTree = 0
  /\ loginKey = KeyAt("")
  /\ reply = NoReply
  /\ IdleCaller
  /\ pending = <<>>
  /\ log = <<>>

createFrame == <<stashTree, loginStash, loginTree, loginKey, reply, error, opts,
                 deviceDescription, appId, pc, ret, ret0>>

\* createLogin up to `await loginFetch(...)`: the kit is made, named, and
\* its server part sent.
CreateLogin(i) ==
  /\ calls[i].pc = "ready"
  /\ LET fixedName == fixUsername(calls[i].username)
         kit == makeCreateKit("", fixedName, calls[i].opts)
         login == With(With(kit.login, "username", fixedName), "userId", kit.login.loginId)
         stash == With(kit.stash, "username", fixedName)
         h == Alloc(Alloc(heap, stash), login)
     IN /\ heap' = h
        /\ calls' = [calls EXCEPT ![i].pc = "fetching",
                                  ![i].stash = Len(h) - 1, ![i].login = Len(h)]
        /\ log' = Append(log, FetchCall("POST", kit.serverPath, [data |-> kit.server]))
  /\ UNCHANGED <<createFrame, disk, pending>>

\* hashUsername (or a kit that makeCreateKit awaits) rejects.
MakeCreateKitRejects(i) ==
  /\ calls[i].pc = "ready"
  /\ calls' = [calls EXCEPT ![i] = Failed(@, "ScryptError")]
  /\ UNCHANGED <<heap, createFrame, disk, pending, log>>

\* (mutant) the stash is saved although the server refused
CreateFetchRejectsAndSaves(i) ==
  /\ calls[i].pc = "fetching"
  /\ LET save == saveStashStart(heap, calls[i].stash)
     IN /\ log' = Append(log, SaveCall(heap, calls[i].stash))
        /\ pending' = Append(pending, With(save, "call", i))
        /\ calls' = [calls EXCEPT ![i].pc = "saving"]
  /\ UNCHANGED <<heap, createFrame, disk>>

CreateFetchRejects(i) ==
  /\ calls[i].pc = "fetching"
  /\ \E name \in {"NetworkError", "UsernameError"} :
       calls' = [calls EXCEPT ![i] = Failed(@, name)]
  /\ UNCHANGED <<heap, createFrame, disk, pending, log>>

\* The server accepted: lastLogin is stamped and the save started.
CreateFetchResolves(i) ==
  /\ calls[i].pc = "fetching"
  /\ LET h == SetField(heap, calls[i].stash, "lastLogin", nowOf(calls[i].accountOpts))
         save == saveStashStart(h, calls[i].stash)
     IN /\ heap' = h
        /\ log' = Append(log, SaveCall(h, calls[i].stash))
        /\ IF save.err # NoError
           THEN /\ calls' = [calls EXCEPT
                     ![i] = [Failed(@, save.err) EXCEPT !.reply = "r:reply"]]
                /\ UNCHANGED pending
           ELSE /\ calls' = [calls EXCEPT ![i].pc = "saving", ![i].reply = "r:reply"]
                /\ pending' = Append(pending, With(save, "call", i))
  /\ UNCHANGED <<createFrame, disk>>

\* The write finishes: saveStash dispatches, createLogin returns kit.login.
CreateWriteCompletes ==
  \E j \in 1..Len(pending) :
    /\ disk' = Written(disk, [path |-> pending[j].path, text |-> pending[j].text])
    /\ pending' = Remove(pending, j)
    /\ log' = Append(log, Dispatch("LOGIN_STASH_SAVED", pending[j].payload))
    /\ calls' = [calls EXCEPT ![pending[j].call].pc = "done",
                              ![pending[j].call].out = calls[pending[j].call].login]
    /\ UNCHANGED <<heap, createFrame>>

CreateWriteFails ==
  \E j \in 1..Len(pending) :
    /\ pending' = Remove(pending, j)
    /\ calls' = [calls EXCEPT ![pending[j].call] = Failed(@, "DiskError")]
    /\ UNCHANGED <<heap, createFrame, disk, log>>

NextCreate ==
  \/ \E i \in 1..Len(calls) : CreateLogin(i)
  \/ \E i \in 1..Len(calls) : MakeCreateKitRejects(i)
  \/ \E i \in 1..Len(calls) : CreateFetchRejects(i)
  \/ \E i \in 1..Len(calls) : CreateFetchResolves(i)
  \/ CreateWriteCompletes
  \/ CreateWriteFails

SpecCreate == InitCreate /\ [][NextCreate]_vars

-----------------------------------------------------------------------------
(* Claims on createLogin. *)

\* C22: createLogin calls saveStash only in the step in which its POST to
\* /v2/login/create was answered; when the request is rejected nothing is
\* saved, the files stay as they were and no login is returned; the login is
\* returned only in the step in which the write completed, and then the file
\* of the new loginId holds a stash with appId '', the normalized username and
\* lastLogin = now.
C22_CreateSavesAfterPost ==
  [][ \A i \in CallIds :
        /\ SaveCalls(log') # SaveCalls(log) =>
             /\ calls[i].pc = "fetching"
             /\ calls'[i].pc \in {"saving", "failed"}
             /\ calls'[i].reply # Undef
             /\ FetchCalls(log) = 1
             /\ log[1].method = "POST" /\ log[1].path = "/v2/login/create"
        /\ (calls[i].pc = "fetching" /\ calls'[i].pc = "failed"
              /\ calls'[i].reply = Undef) =>
             /\ UNCHANGED <<disk, pending, log>>
             /\ calls'[i].out = 0
        /\ calls[i].pc = "failed" => (calls'[i] = calls[i] /\ disk' = disk)
        /\ calls'[i].out # calls[i].out =>
             LET path == "logins/" \o base58(hashUsername(calls[i].username)) \o ".json"
             IN /\ calls[i].pc = "saving"
                /\ path \in DOMAIN disk'
                /\ Get(disk'[path], "appId") = ""
                /\ Get(disk'[path], "username") = fixUsername(calls[i].username)
                /\ Get(disk'[path], "lastLogin") = nowOf(calls[i].accountOpts)
                /\ Get(disk'[path], "loginId") = hashUsername(calls[i].username)
                /\ pending' = <<>>
                /\ calls'[i].out = calls[i].login
                /\ heap[calls[i].login].username = fixUsername(calls[i].username)
    ]_vars

\* A login was created for 'Edge ' with password, pin and keys at time t1
\* over an older file of the user: the login is returned and the file holds
\* the new stash.
C22_Witness ==
  /\ calls[1].fn = "createLogin"
  /\ calls[1].pc = "done"
  /\ calls[1].username = "Edge "
  /\ calls[1].out # 0
  /\ calls[1].opts = [password |-> TRUE, pin |-> TRUE, keyInfo |-> TRUE]
  /\ disk["logins/" \o base58(hashUsername("edge")) \o ".json"].lastLogin = "t1"
  /\ disk["logins/" \o base58(hashUsername("edge")) \o ".json"].username = "edge"
  /\ Calls(log, "dispatch") # <<>>

-----------------------------------------------------------------------------
(* Claims on updateTree with several matching nodes. *)

TreeDone == (pc = "sanitized" \/ pc = "built") /\ ret.err = NoError

\* What `update` leaves at a matching node: sanitizeLoginStash the node
\* itself, makeLoginTree a login with its key.
Transformed(old, new) ==
  IF pc = "sanitized" THEN new = old ELSE "loginKey" \in DOMAIN heap[new]

\* C23 (as stated): of the nodes that have the wanted appId, only the first
\* in pre-order is transformed by makeLoginTree and sanitizeLoginStash; every
\* other one is cloned as a node without that appId is.
C23_OnlyFirstMatchTransformed ==
  TreeDone =>
    \A p \in Updated(heap, stashTree, ret.out, appId) :
      \/ p[1] = searchTree(heap, stashTree, "appId", appId)
      \/ Stripped(heap, p[1], p[2])

\* C23 (amended): every node that has the wanted appId and no ancestor with
\* it is transformed, the first in pre-order and the later ones alike; the
\* nodes outside the subtrees of those nodes are cloned.
C23_EveryTopmostMatchTransformed ==
  TreeDone =>
    /\ \A p \in Updated(heap, stashTree, ret.out, appId) : Transformed(p[1], p[2])
    /\ \A p \in Outside(heap, stashTree, ret.out, appId) :
         /\ Stripped(heap, p[1], p[2])
         /\ ~Transformed(p[1], p[2])

\* Two children of the root have the wanted appId, and the second is
\* transformed as the first is.
C23_Witness ==
  /\ TreeDone
  /\ \E p, q \in Updated(heap, stashTree, ret.out, appId) :
       /\ p # q
       /\ p[1] = searchTree(heap, stashTree, "appId", appId)
       /\ Transformed(q[1], q[2])
       /\ ~Stripped(heap, q[1], q[2])

-----------------------------------------------------------------------------
(* Claims on the client-side fields and keys of a reconciled node. *)

Reconciled == pc = "applied" /\ ret.err = NoError

\* The stash node paired with the i-th reply child: 0 stands for the
\* `{ appId, loginId }` object made for a child the stash does not know.
StashChildAt(h, stash, i) ==
  IF stash # 0 /\ i <= Len(ChildrenOf(h, stash)) THEN ChildrenOf(h, stash)[i] ELSE 0
StashField(h, stash, f) == IF stash = 0 THEN Undef ELSE Get(h[stash], f)

RECURSIVE ClientData(_, _, _, _)
ClientData(h, out, stash, r) ==
  /\ Get(h[out], "lastLogin") = StashField(h, stash, "lastLogin")
  /\ Get(h[out], "username") = StashField(h, stash, "username")
  /\ Get(h[out], "userId") =
       IF StashField(h, stash, "userId") # Undef
       THEN StashField(h, stash, "userId")
       ELSE Get(r, "userId")
  /\ Len(ChildrenOf(h, out)) = Len(ReplyChildren(r))
  /\ \A i \in 1..Len(ChildrenOf(h, out)) :
       ClientData(h, ChildrenOf(h, out)[i], StashChildAt(h, stash, i),
                  ReplyChildren(r)[i])

\* C24: in every node applyLoginReplyInner produces, lastLogin and username
\* are those of the previous stash node, never the reply's; userId is the
\* previous stash node's when it had one, and the reply's only when it had
\* none.
C24_ClientDataFromStash ==
  Reconciled =>
    \A p \in Updated(heap, stashTree, ret.out, reply.appId) :
      ClientData(heap, p[2], p[1], reply)

\* A stash node with its own userId met a reply with another one and kept
\* its own, while a child new to the stash took the reply's.
C24_Witness ==
  /\ Reconciled
  /\ \E p \in Updated(heap, stashTree, ret.out, reply.appId) :
       /\ Get(heap[p[1]], "userId") = "s:userId"
       /\ Get(reply, "userId") = "r:userId"
       /\ Get(reply, "username") = "r:username"
       /\ heap[p[2]].userId = "s:userId"
       /\ Len(ChildrenOf(heap, p[2])) > Len(ChildrenOf(heap, p[1]))
       /\ \E c \in Range(ChildrenOf(heap, p[2])) :
            Get(heap[c], "userId") = "r:userId" /\ Get(heap[c], "username") = Undef

\* The key of reply node `r` is `key`: its boxes open under it, and its
\* children's keys are in their parentBoxes.
KeyStored(h, out, r, key, boxField, keyField) ==
  NonNull(r, boxField) =>
    /\ CanDecrypt(r[boxField], key)
    /\ Get(h[out], keyField) = Base64Stringify(decrypt(r[boxField], key))
    /\ boxField \notin DOMAIN h[out]
RECURSIVE KeysStored(_, _, _, _)
KeysStored(h, out, r, key) ==
  /\ KeyStored(h, out, r, key, "pin2KeyBox", "pin2Key")
  /\ KeyStored(h, out, r, key, "recovery2KeyBox", "recovery2Key")
  /\ "keyBoxes" \in DOMAIN h[out]
  /\ h[out].keyBoxes = (IF NonNull(r, "keyBoxes") THEN r.keyBoxes ELSE <<>>)
  /\ Len(ChildrenOf(h, out)) = Len(ReplyChildren(r))
  /\ \A i \in 1..Len(ChildrenOf(h, out)) :
       /\ NonNull(ReplyChildren(r)[i], "parentBox")
       /\ KeysStored(h, ChildrenOf(h, out)[i], ReplyChildren(r)[i],
                     decrypt(ReplyChildren(r)[i].parentBox, key))

\* C25: a reconciled node whose reply node carries pin2KeyBox (resp.
\* recovery2KeyBox) has pin2Key (resp. recovery2Key) equal to the base64
\* text of that box decrypted under the node's loginKey, and does not hold
\* the box; its keyBoxes is the reply node's keyBoxes list, or the empty
\* list when the reply node has none.
C25_KeysStoredUnencrypted ==
  Reconciled =>
    \A p \in Updated(heap, stashTree, ret.out, reply.appId) :
      KeysStored(heap, p[2], reply, loginKey)

\* A child of the reconciled node got its keys from boxes under the child's
\* own key.
C25_Witness ==
  /\ Reconciled
  /\ \E p \in Updated(heap, stashTree, ret.out, reply.appId) :
       /\ Get(heap[p[2]], "pin2Key") = Base64Stringify("pin2")
       /\ \E i \in 1..Len(ChildrenOf(heap, p[2])) :
            LET c == heap[ChildrenOf(heap, p[2])[i]]
                rc == ReplyChildren(reply)[i]
            IN /\ NonNull(rc, "recovery2KeyBox")
               /\ rc.recovery2KeyBox.key = KeyAt(PathOf(i))
               /\ Get(c, "recovery2Key") = Base64Stringify("rec2")
               /\ c.keyBoxes = rc.keyBoxes
               /\ c.keyBoxes # <<>>

\* A reply without keyBoxes leaves the empty list, also where the stash had
\* key boxes of its own.
C25_WitnessNoBoxes ==
  /\ Reconciled
  /\ ~NonNull(reply, "keyBoxes")
  /\ \E p \in Updated(heap, stashTree, ret.out, reply.appId) :
       /\ Get(heap[p[1]], "keyBoxes") # Undef
       /\ heap[p[2]].keyBoxes = <<>>

-----------------------------------------------------------------------------
(* Claims on the errors of makeLoginTree and applyLoginReply. *)

Built == pc = "built" /\ reply = NoReply

\* `stash.loginAuthBox == null && stash.passwordAuthBox == null`
NoAuthBox(node) == ~NonNull(node, "loginAuthBox") /\ ~NonNull(node, "passwordAuthBox")
NoAuthBelow(h, node) == \E id \in TreeIds(h, node) : NoAuthBox(h[id])

\* C26 (as stated), for calls on the root login with the root's key:
\* makeLoginTree fails with MissingAuth whenever a node of the target subtree
\* has neither loginAuthBox nor passwordAuthBox.
C26_AlwaysMissingAuth ==
  (Built /\ appId = "" /\ loginKey = KeyAt("") /\ NoAuthBelow(heap, stashTree)) =>
    ret.err = "MissingAuth"

\* C26 (amended): in that case makeLoginTree returns no tree: it fails with
\* MissingAuth, or with the decryption or key-integrity error the walk meets
\* before it reaches that node; MissingAuth is raised for no other reason,
\* and every node of a built target subtree has loginAuth or passwordAuth.
C26_NoTreeWithoutAuth ==
  Built =>
    /\ (\E t \in Targets(heap, stashTree, appId) : NoAuthBelow(heap, t)) =>
         ret.err \in {"MissingAuth", "DecryptError", "KeyIntegrity"}
    /\ ret.err = "MissingAuth" =>
         \E t \in Targets(heap, stashTree, appId) : NoAuthBelow(heap, t)
    /\ ret.err = NoError =>
         \A p \in Updated(heap, stashTree, ret.out, appId) :
           \A id \in TreeIds(heap, p[2]) : ~missingAuth(heap[id])

\* The root of the target has its boxes and is built; a node below it has
\* none, and the call fails with MissingAuth.
C26_Witness ==
  /\ Built
  /\ ret.err = "MissingAuth"
  /\ loginKey = KeyAt("")
  /\ \E t \in Targets(heap, stashTree, appId) :
       /\ ~NoAuthBox(heap[t])
       /\ NoAuthBelow(heap, t)

-----------------------------------------------------------------------------
(* makeLoginTree and applyLoginReply on stashes and replies in which a     *)
(* child may come without its parentBox.                                   *)

IntegrityStashTrees ==
  UNION { { StashTreeOf(shape, l, "bare", d) :
              l \in Labellings(shape),
              d \in Defects({"noParentBox"}, PathsOf(shape)) } :
          shape \in Shapes }

IntegrityReplies ==
  UNION { { ReplyTreeOf("", shape, FALSE, d) :
              d \in Defects({"noParentBox"}, PathsOf(shape)) } :
          shape \in Shapes }

InitIntegrity ==
  /\ \E t \in IntegrityStashTrees :
       /\ heap = Load(<<>>, t).heap
       /\ stashTree = Load(<<>>, t).out
  /\ loginKey = KeyAt("")
  /\ reply \in IntegrityReplies
  /\ IdleCaller
  /\ IdleIo

NextIntegrity == MakeLoginTree \/ ApplyLoginReply \/ MakeLoginTreeOfReply

SpecIntegrity == InitIntegrity /\ [][NextIntegrity]_vars

\* makeLoginTree ran on the stash as loaded / on the reconciled stash
BuiltOfStash == pc = "built" /\ ret0.out = 0
BuiltFrom == IF ret0.out = 0 THEN stashTree ELSE ret0.out

\* A child somewhere below the node has no parentBox.
StashChildUnboxed(h, node) ==
  \E id \in TreeIds(h, node) \ {node} : noParentBox(h[id])
RECURSIVE ReplyChildUnboxed(_)
ReplyChildUnboxed(r) ==
  \E i \in 1..Len(ReplyChildren(r)) :
    noParentBox(ReplyChildren(r)[i]) \/ ReplyChildUnboxed(ReplyChildren(r)[i])

\* Each child's loginKey is what its stash node's parentBox holds under the
\* parent's loginKey.
RECURSIVE KeysChained(_, _, _)
KeysChained(h, stash, login) ==
  /\ Len(ChildrenOf(h, login)) = Len(ChildrenOf(h, stash))
  /\ \A i \in 1..Len(ChildrenOf(h, login)) :
       LET s == ChildrenOf(h, stash)[i]
           c == ChildrenOf(h, login)[i]
       IN /\ NonNull(h[s], "parentBox")
          /\ CanDecrypt(h[s].parentBox, h[login].loginKey)
          /\ Get(h[c], "loginKey") = decrypt(h[s].parentBox, h[login].loginKey)
          /\ KeysChained(h, s, c)

\* C27 (as stated), for calls on the root login with the root's key:
\* makeLoginTree and applyLoginReply fail with a key-integrity error when a
\* child in the processed subtree (a stash child, resp. a reply child) has no
\* parentBox.
C27_AlwaysKeyIntegrity ==
  /\ (BuiltOfStash /\ appId = "" /\ loginKey = KeyAt("")
        /\ StashChildUnboxed(heap, stashTree)) => ret.err = "KeyIntegrity"
  /\ (pc = "applied" /\ ReplyChildUnboxed(reply)) => ret.err = "KeyIntegrity"

\* The boxes that makeLoginTreeInner opens on the way down all open, as
\* far as the parentBoxes lead.
RECURSIVE StashBoxesOpen(_, _, _)
StashBoxesOpen(h, node, key) ==
  /\ \A f \in {"loginAuthBox", "passwordAuthBox", "pin2TextBox"} :
       NonNull(h[node], f) => CanDecrypt(h[node][f], key)
  /\ \A c \in Range(ChildrenOf(h, node)) :
       NonNull(h[c], "parentBox") =>
         /\ CanDecrypt(h[c].parentBox, key)
         /\ StashBoxesOpen(h, c, decrypt(h[c].parentBox, key))
RECURSIVE ReplyBoxesOpen(_, _)
ReplyBoxesOpen(r, key) ==
  /\ \A f \in {"pin2KeyBox", "recovery2KeyBox"} :
       NonNull(r, f) => CanDecrypt(r[f], key)
  /\ \A c \in Range(ReplyChildren(r)) :
       NonNull(c, "parentBox") =>
         /\ CanDecrypt(c.parentBox, key)
         /\ ReplyBoxesOpen(c, decrypt(c.parentBox, key))

\* C27 (amended): in those cases neither function returns a tree: the call
\* fails with the key-integrity error when nothing else is wrong with the
\* subtree, and otherwise with that error or the one the walk meets first;
\* the key-integrity error is raised for no other reason; and in every login
\* tree that is built each child's loginKey is its parentBox decrypted under
\* its parent's loginKey.
C27_NoTreeWithoutParentBox ==
  /\ BuiltOfStash =>
       /\ \A t \in Targets(heap, stashTree, appId) :
            StashChildUnboxed(heap, t) =>
              /\ ret.err \in {"KeyIntegrity", "MissingAuth", "DecryptError"}
              /\ (Targets(heap, stashTree, appId) = {t}
                    /\ ~NoAuthBelow(heap, t)
                    /\ StashBoxesOpen(heap, t, loginKey)) => ret.err = "KeyIntegrity"
       /\ ret.err = "KeyIntegrity" =>
            \E t \in Targets(heap, stashTree, appId) : StashChildUnboxed(heap, t)
  /\ pc = "applied" =>
       /\ ReplyChildUnboxed(reply) =>
            /\ ret.err \in {"KeyIntegrity", "ServerLostChildren", "DecryptError"}
            /\ ((\A t \in Targets(heap, stashTree, reply.appId) :
                     ~LostAnywhere(heap, t, reply))
                  /\ ReplyBoxesOpen(reply, loginKey)) => ret.err = "KeyIntegrity"
       /\ ret.err = "KeyIntegrity" => ReplyChildUnboxed(reply)
  /\ (pc = "built" /\ ret.err = NoError) =>
       \A p \in Updated(heap, BuiltFrom, ret.out, appId) :
         KeysChained(heap, p[1], p[2])

\* A grandchild without parentBox stops makeLoginTree after the root and the
\* child were built.
C27_Witness ==
  /\ BuiltOfStash
  /\ appId = ""
  /\ ret.err = "KeyIntegrity"
  /\ ~noParentBox(heap[ChildrenOf(heap, stashTree)[1]])
  /\ StashChildUnboxed(heap, ChildrenOf(heap, stashTree)[1])

\* A reply child without parentBox stops applyLoginReply.
C27_WitnessReply ==
  /\ pc = "applied"
  /\ ret.err = "KeyIntegrity"
  /\ ReplyChildUnboxed(reply)

\* A login tree with a grandchild was built, each key from its parentBox.
C27_WitnessBuilt ==
  /\ pc = "built"
  /\ ret.err = NoError
  /\ \E p \in Updated(heap, BuiltFrom, ret.out, appId) :
       \E c \in Range(ChildrenOf(heap, p[2])) :
         /\ heap[c].loginKey # heap[p[2]].loginKey
         /\ ChildrenOf(heap, c) # <<>>

-----------------------------------------------------------------------------
(* scrypt pixie: calcSnrpForTarget.  Times are counted in eighths of a     *)
(* millisecond, the unit of `perRValue = benchMs / STARTING_R`, so that    *)
(* every quotient the function floors is a quotient of integers.           *)

MaxBenchMs == 4
MaxTargetMs == 270

STARTING_R == 8
MAX_R == 8
REMAINING_R == MAX_R - STARTING_R

Base16Stringify(bytes) == "hex:" \o bytes

\* `x = num / den; x = x > 0 ? x : 0; if (x > cap) x = cap; Math.floor(x)`
flooredSteps(num, den, cap) ==
  IF num <= 0 THEN 0
  ELSE IF num \div den >= cap THEN cap
  ELSE num \div den

\* (mutant) the time estimate is not updated for the larger n
timeAfterUnchanged(timeUsed, steps, perStep) == timeUsed

\* `timeUsed += addR * perRValue`, `timeUsed += addN * timeUsed`
timeAfter(timeUsed, steps, perStep) == timeUsed + steps * perStep

calcSnrpForTarget(salt, benchMs, targetMs) ==
  IF benchMs = 0
  THEN [salt_hex |-> Base16Stringify(salt), n |-> 131072, r |-> 8, p |-> 64]
  ELSE
  LET target == 8 * targetMs
      timeUsed0 == 8 * benchMs
      perRValue == benchMs
      addR == flooredSteps(target - timeUsed0, perRValue, REMAINING_R)
      timeUsed1 == timeAfter(timeUsed0, addR, perRValue)
      addN == flooredSteps(target - timeUsed1, timeUsed1, 3)
      nPow == 14 + (IF addN >= 0 THEN addN ELSE 0)
      timeUsed2 == timeAfter(timeUsed1, addN, timeUsed1)
      addP == flooredSteps(target - timeUsed2, timeUsed2, 64)
  IN [salt_hex |-> Base16Stringify(salt),
      n |-> 2 ^ nPow,
      r |-> STARTING_R + addR,
      p |-> IF addP >= 1 THEN addP ELSE 1]

NoSnrp == [salt_hex |-> Undef, n |-> 0, r |-> 0, p |-> 0]

InitSnrp ==
  /\ heap = <<>>
  /\ stashTree = 0
  /\ loginKey = KeyAt("")
  /\ reply = NoReply
  /\ IdleCaller
  /\ disk = <<>>
  /\ pending = <<>>
  /\ log = <<>>
  /\ \E benchMs \in 0..MaxBenchMs, targetMs \in (0 - 1)..MaxTargetMs :
       calls = << [fn |-> "calcSnrpForTarget", salt |-> "00ff", benchMs |-> benchMs,
                   targetMs |-> targetMs, pc |-> "called", snrp |-> NoSnrp] >>

CalcSnrpForTarget ==
  /\ calls[1].pc = "called"
  /\ calls' = [calls EXCEPT
       ![1].snrp = calcSnrpForTarget(calls[1].salt, calls[1].benchMs, calls[1].targetMs),
       ![1].pc = "returned"]
  /\ UNCHANGED <<heap, args, appId, pc, ret, ret0, disk, pending, log>>

SpecSnrp == InitSnrp /\ [][CalcSnrpForTarget]_vars

PowersOfTwo == { 2 ^ k : k \in 0..20 }

\* C28: calcSnrpForTarget returns n = 131072, r = 8, p = 64 for benchMs = 0;
\* for benchMs > 0 and any targetMs it returns r = 8, n a power of two from
\* 16384 to 131072 and p from 1 to 64; it returns n = 16384, r = 8, p = 1
\* whenever targetMs <= benchMs; and p is above 1 only when n is 131072.
C28_SnrpWithinLimits ==
  calls[1].pc = "returned" =>
    LET benchMs == calls[1].benchMs
        targetMs == calls[1].targetMs
        snrp == calls[1].snrp
    IN /\ benchMs = 0 => (snrp.n = 131072 /\ snrp.r = 8 /\ snrp.p = 64)
       /\ benchMs > 0 =>
            /\ snrp.r = 8
            /\ snrp.n \in PowersOfTwo
            /\ 16384 <= snrp.n /\ snrp.n <= 131072
            /\ 1 <= snrp.p /\ snrp.p <= 64
            /\ targetMs <= benchMs => (snrp.n = 16384 /\ snrp.p = 1)
            /\ snrp.p > 1 => snrp.n = 131072

\* A benchmark above zero and a target large enough for the largest n and
\* for more than one thread.
C28_Witness ==
  /\ calls[1].pc = "returned"
  /\ calls[1].benchMs > 0
  /\ calls[1].snrp.n = 131072
  /\ calls[1].snrp.p > 1
  /\ calls[1].snrp.p < 64

\* The cap of p is met.
C28_WitnessCaps ==
  /\ calls[1].pc = "returned"
  /\ calls[1].benchMs > 0
  /\ calls[1].snrp.p = 64
  /\ calls[1].targetMs > 260 * calls[1].benchMs

-----------------------------------------------------------------------------
(* Claims on overlapping applyKit calls. *)

\* Two applyKit calls of one account have both succeeded, and both read the
\* stash before the save of either was completed.
Overlapped ==
  /\ Len(calls) = 2
  /\ \A i \in 1..2 : calls[i].fn = "applyKit" /\ calls[i].pc = "done"
  /\ calls[1].stashTree = calls[2].stashTree

\* The nodes of a stash file with the given loginId
RECURSIVE NodesOf(_, _)
NodesOf(tree, id) ==
  (IF Get(tree, "loginId") = id THEN {tree} ELSE {})
    \cup UNION { NodesOf(c, id) : c \in Elements(ListOf(tree, "children")) }

\* The stash file shows the stash delta of the kit at the kit's login.
HasStashDelta(file, kit) ==
  \E node \in NodesOf(file, kit.loginId) :
    /\ \A f \in DOMAIN kit.stash \ {"children", "keyBoxes"} :
         Get(node, f) = kit.stash[f]
    /\ Elements(ListOf(kit.stash, "keyBoxes")) \subseteq Elements(ListOf(node, "keyBoxes"))

\* The kit of a request that applyKits sent
KitOfFetch(sent) ==
  CHOOSE kit \in ListKits :
    /\ kit.serverPath = sent.path
    /\ elvis(Get(kit, "serverMethod"), "POST") = sent.method
    /\ kit.loginId = Get(sent.body, "loginId")

\* C29: applyKit saves a tree made from the stash it read before its server
\* request. When two applyKit calls of one account overlap, the file is what
\* the save completed last has written: the stash both calls read, merged
\* with the kit of one call only, without the stash delta of the other kit.
\* When applyKits has applied its kits, the file shows the stash delta of
\* every kit.
C29_OverlappingKitsLoseDelta ==
  /\ Overlapped =>
       LET snapshot == calls[1].stashTree
           file == FileOf(heap, snapshot)
       IN /\ file = stringify(Tree(heap, stashTree))
          /\ stashTree = Calls(log, "dispatch")[2].payload
          /\ \E i \in 1..2 :
               LET kit == Head(calls[i].kits)
                   other == Head(calls[3 - i].kits)
               IN /\ OnlyTargetMerged(Tree(heap, snapshot), file, kit.loginId,
                                      DeltaValue(kit.stash), "keyBoxes", TRUE, FALSE)
                  /\ other # kit => ~HasStashDelta(file, other)
  /\ \A i \in CallIds :
       (calls[i].fn = "applyKits" /\ calls[i].pc = "done") =>
         \A k \in 1..FetchCalls(log) :
           HasStashDelta(FileOf(heap, stashTree), KitOfFetch(Calls(log, "loginFetch")[k]))

\* Two different kits overlapped; the file has the keys of the second call's
\* kit and not the OTP settings of the first call's kit.
C29_Witness ==
  /\ Overlapped
  /\ Head(calls[1].kits) = OtpOnKit(RootLoginId)
  /\ Head(calls[2].kits) = KeysKit(RootLoginId)
  /\ HasStashDelta(FileOf(heap, stashTree), KeysKit(RootLoginId))
  /\ ~HasStashDelta(FileOf(heap, stashTree), OtpOnKit(RootLoginId))

\* applyKits has applied the same two kits to the root login.
C29_WitnessList ==
  /\ Len(calls) = 1
  /\ calls[1].fn = "applyKits"
  /\ calls[1].pc = "done"
  /\ FetchCalls(log) = 2
  /\ HasStashDelta(FileOf(heap, stashTree), KeysKit(RootLoginId))
  /\ HasStashDelta(FileOf(heap, stashTree), OtpOnKit(RootLoginId))

-----------------------------------------------------------------------------
(* Claims on what a reconciled node keeps of the stash, on SpecLogin. *)

ClientFields == {"lastLogin", "username", "userId"}

\* Apart from lastLogin, username and userId the node `out` holds nothing
\* but what follows from the reply node `r`: no voucher, the allowlisted
\* fields of the reply, its keyBoxes, and pin2Key / recovery2Key exactly when
\* the reply has the box.
RECURSIVE FromReplyOnly(_, _, _)
FromReplyOnly(h, out, r) ==
  /\ "voucherId" \notin DOMAIN h[out]
  /\ "voucherAuth" \notin DOMAIN h[out]
  /\ "pin2Key" \in DOMAIN h[out] <=> NonNull(r, "pin2KeyBox")
  /\ "recovery2Key" \in DOMAIN h[out] <=> NonNull(r, "recovery2KeyBox")
  /\ \A f \in DOMAIN h[out] \ (ClientFields \cup {"children"}) :
       IF f = "pin2Key" THEN h[out][f] = Base64Stringify(r.pin2KeyBox.data)
       ELSE IF f = "recovery2Key" THEN h[out][f] = Base64Stringify(r.recovery2KeyBox.data)
       ELSE IF f = "keyBoxes" THEN h[out][f] = ListOf(r, "keyBoxes")
       ELSE f \in ReplyAllowlist /\ f \in DOMAIN r /\ h[out][f] = r[f]
  /\ Len(ChildrenOf(h, out)) = Len(ReplyChildren(r))
  /\ \A i \in 1..Len(ChildrenOf(h, out)) :
       FromReplyOnly(h, ChildrenOf(h, out)[i], ReplyChildren(r)[i])

StashPath(h, tree) == "logins/" \o base58(Get(h[tree], "loginId")) \o ".json"

\* C30 (as stated): after a successful serverLogin or syncLogin the persisted
\* node of the login has no voucherId and no voucherAuth.
C30_LoginDropsVoucher ==
  pc \in {"done", "synced"} =>
    /\ StashPath(heap, stashTree) \in DOMAIN disk
    /\ disk[StashPath(heap, stashTree)] = stringify(Tree(heap, stashTree))
    /\ \A id \in TreeIds(heap, stashTree) :
         Get(heap[id], "appId") = heap[loginStash].appId =>
           DOMAIN heap[id] \cap {"voucherId", "voucherAuth"} = {}

\* C30 (amended): the nodes that serverLogin and syncLogin reconcile (the
\* node with the appId of the reply, and the nodes below it) keep of the
\* previous stash node at most lastLogin, username and userId: they have no
\* voucherId and no voucherAuth, and pin2Key (resp. recovery2Key) only when
\* the reply carried pin2KeyBox (resp. recovery2KeyBox); the tree with these
\* nodes is what the save writes, and it is in the file when the login or
\* the sync has succeeded.
C30_ReconciledKeepsClientFieldsOnly ==
  [][ /\ stashTree' # stashTree =>
           /\ pc \in {"decrypting", "syncing"}
           /\ \A p \in Updated(heap', stashTree, stashTree', Get(reply', "appId")) :
                FromReplyOnly(heap', p[2], reply')
           /\ \A i \in 1..Len(pending') :
                pending'[i].awaited =>
                  pending'[i].text = stringify(Tree(heap', stashTree'))
      /\ pc' \in {"done", "synced"} /\ pc' # pc =>
           /\ pc \in {"saving", "syncSaving"}
           /\ StashPath(heap, stashTree) \in DOMAIN disk'
           /\ disk'[StashPath(heap, stashTree)] = stringify(Tree(heap, stashTree))
    ]_vars

\* serverLogin has succeeded on a stash whose root had a voucher and a
\* pin2Key, with a reply for the root that carried no pin2KeyBox: the file
\* has neither, and the userId of the stash.
C30_Witness ==
  /\ pc = "done"
  /\ {"voucherId", "voucherAuth", "pin2Key", "userId"} \subseteq DOMAIN heap[1]
  /\ Get(reply, "appId") = heap[1].appId
  /\ ~NonNull(reply, "pin2KeyBox")
  /\ StashPath(heap, stashTree) \in DOMAIN disk
  /\ LET file == disk[StashPath(heap, stashTree)]
     IN /\ DOMAIN file \cap {"voucherId", "voucherAuth", "pin2Key"} = {}
        /\ Get(file, "userId") = heap[1].userId

\* syncLogin has succeeded with a reply that carried a pin2KeyBox after a
\* login whose reply had none.
C30_WitnessSync ==
  /\ pc = "synced"
  /\ NonNull(reply, "pin2KeyBox")
  /\ Get(reply, "appId") = heap[stashTree].appId
  /\ StashPath(heap, stashTree) \in DOMAIN disk
  /\ Get(disk[StashPath(heap, stashTree)], "pin2Key") = Base64Stringify("pin2")
  /\ \E id \in 1..Len(heap) :
       /\ Get(heap[id], "loginId") = heap[stashTree].loginId
       /\ "keyBoxes" \in DOMAIN heap[id]
       /\ "pin2Key" \notin DOMAIN heap[id]

-----------------------------------------------------------------------------
(* Claims on the pairing of stash children and reply children. *)

\* Below `out`, reconciled from stash node `stash` (0 for none) and reply
\* node `r`: as many children as the reply has and no fewer than the stash
\* had; child i has the appId and loginId of reply child i and the
\* lastLogin, username and userId (if any) of stash child i.
RECURSIVE PairedByIndex(_, _, _, _)
PairedByIndex(h, out, stash, r) ==
  /\ Len(ChildrenOf(h, out)) = Len(ReplyChildren(r))
  /\ stash # 0 => Len(ChildrenOf(h, out)) >= Len(ChildrenOf(h, stash))
  /\ \A i \in 1..Len(ChildrenOf(h, out)) :
       LET c == ChildrenOf(h, out)[i]
           sc == StashChildAt(h, stash, i)
           rc == ReplyChildren(r)[i]
       IN /\ Get(h[c], "appId") = Get(rc, "appId")
          /\ Get(h[c], "loginId") = Get(rc, "loginId")
          /\ Get(h[c], "lastLogin") = StashField(h, sc, "lastLogin")
          /\ Get(h[c], "username") = StashField(h, sc, "username")
          /\ StashField(h, sc, "userId") # Undef =>
               Get(h[c], "userId") = StashField(h, sc, "userId")
          /\ PairedByIndex(h, c, sc, rc)

\* C31: applyLoginReplyInner pairs stash children with reply children by
\* index alone: reconciled child i has the appId and loginId of reply child
\* i, whatever those of stash child i were, and keeps the lastLogin,
\* username and userId of stash child i; every reconciled node has as many
\* children as its reply node and no fewer than its stash node had.
C31_ChildrenPairedByIndex ==
  Reconciled =>
    \A p \in Updated(heap, stashTree, ret.out, reply.appId) :
      PairedByIndex(heap, p[2], p[1], reply)

\* Stash child i and reply child i are of different apps; the reconciled
\* child is of the reply's app, with the reply's loginId and the userId of
\* the stash child.
C31_Witness ==
  /\ Reconciled
  /\ \E p \in Updated(heap, stashTree, ret.out, reply.appId) :
       \E i \in 1..Len(ChildrenOf(heap, p[1])) :
         LET sc == heap[ChildrenOf(heap, p[1])[i]]
             c == heap[ChildrenOf(heap, p[2])[i]]
             rc == ReplyChildren(reply)[i]
         IN /\ sc.appId # rc.appId
            /\ sc.loginId # rc.loginId
            /\ c.appId = rc.appId
            /\ c.loginId = rc.loginId
            /\ Get(sc, "userId") = "s:userId"
            /\ Get(rc, "userId") = "r:userId"
            /\ Get(c, "userId") = "s:userId"
            /\ Get(c, "lastLogin") = "s:lastLogin"
            /\ Len(ChildrenOf(heap, p[2])) >= Len(ChildrenOf(heap, p[1]))

====
